---- MODULE Spec2Model ----
(***************************************************************************)
(* Model of the Codecov MCP server: the tool handlers (tools/coverage.ts,  *)
(* tools/repository.ts, tools/comparison.ts), the backend client           *)
(* (services/codecov-client.ts) and the process entry point (index.ts).    *)
(*                                                                         *)
(* Conventions                                                             *)
(*   - a JavaScript value that may be null/undefined is a sequence of      *)
(*     length <= 1: <<>> is null/undefined, <<v>> is the value v;          *)
(*   - a JavaScript string that the code computes (toFixed, template       *)
(*     literals, join) or parses (parseFloat) is a sequence of one-        *)
(*     character strings, so that formatting and parsing are computed;     *)
(*     opaque texts (names, messages) are TLA+ strings;                    *)
(*   - a coverage percentage is an integer number of thousandths of a      *)
(*     percent (85714 is 85.714%), a decimal fixed-point stand-in for the  *)
(*     double the backend sends.                                           *)
(***************************************************************************)
EXTENDS Integers, Sequences, FiniteSets, TLC

VARIABLES proc, token, clientInstance, constructed, inv, glInput, glOutput,
          transports, connections, replies

vars == <<proc, token, clientInstance, constructed, inv, glInput, glOutput,
          transports, connections, replies>>

(***************************************************************************)
(* Bounds of the model                                                     *)
(***************************************************************************)
NumInv == 2
MaxTreeDepth == 2
MaxEntries == 3
MaxPathLen == 3
MaxConns == 3
MaxAnyLen == 4
MaxLen == 4
MaxLineNo == 7
MaxFiles == 3
MaxExtra == 3
MaxUntracked == 15

\* line numbers the backend may report: 1..MaxLineNo and a few that need
\* two digits
LineNos == (1..MaxLineNo) \cup {9, 10, 11}

(***************************************************************************)
(* Optional values and strings                                             *)
(***************************************************************************)
None == <<>>
Some(v) == <<v>>
IsSome(o) == Len(o) > 0
Get(o) == o[1]

Digits == <<"0", "1", "2", "3", "4", "5", "6", "7", "8", "9">>
IsDigit(c) == \E d \in 1..10 : Digits[d] = c
DigitVal(c) == (CHOOSE d \in 1..10 : Digits[d] = c) - 1

RECURSIVE NatToStr(_)
NatToStr(n) == IF n < 10 THEN <<Digits[n + 1]>>
               ELSE NatToStr(n \div 10) \o <<Digits[(n % 10) + 1]>>

\* `${n}` for an integer n
IntToStr(n) == IF n < 0 THEN <<"-">> \o NatToStr(0 - n) ELSE NatToStr(n)

\* the number a string of digits denotes
RECURSIVE StrToNat(_, _)
StrToNat(s, acc) == IF Len(s) = 0 THEN acc
                    ELSE StrToNat(Tail(s), acc * 10 + DigitVal(s[1]))

IsNatStr(s) == Len(s) > 0 /\ \A k \in 1..Len(s) : IsDigit(s[k])

\* Array.prototype.join
RECURSIVE Join(_, _)
Join(strs, sep) == IF Len(strs) = 0 THEN <<>>
                   ELSE IF Len(strs) = 1 THEN strs[1]
                   ELSE strs[1] \o sep \o Join(Tail(strs), sep)

(***************************************************************************)
(* groupLines (tools/coverage.ts): consecutive line numbers as ranges      *)
(***************************************************************************)
RangeStr(start, end) ==
  IF start = end THEN IntToStr(start)
  ELSE IntToStr(start) \o <<"-">> \o IntToStr(end)

\* a loop that also takes a repeated number into the running range
RECURSIVE groupLoopMerging(_, _, _, _, _)
groupLoopMerging(ls, i, start, end, ranges) ==
  IF ~(i <= Len(ls)) THEN ranges
  ELSE IF i < Len(ls) /\ ls[i + 1] \in {end, end + 1}
       THEN groupLoopMerging(ls, i + 1, start, ls[i + 1], ranges)
       ELSE LET pushed == Append(ranges, RangeStr(start, end))
            IN  IF i < Len(ls)
                THEN groupLoopMerging(ls, i + 1, ls[i + 1], ls[i + 1], pushed)
                ELSE groupLoopMerging(ls, i + 1, start, end, pushed)

\* the for loop; i is the code's 0-based index, lines[i] there is ls[i + 1]
RECURSIVE groupLoop(_, _, _, _, _)
groupLoop(ls, i, start, end, ranges) ==
  IF ~(i <= Len(ls)) THEN ranges
  ELSE IF i < Len(ls) /\ ls[i + 1] = end + 1
       THEN groupLoop(ls, i + 1, start, ls[i + 1], ranges)
       ELSE LET pushed == Append(ranges, RangeStr(start, end))
            IN  IF i < Len(ls)
                THEN groupLoop(ls, i + 1, ls[i + 1], ls[i + 1], pushed)
                ELSE groupLoop(ls, i + 1, start, end, pushed)

\* a loop that stops one step early and never pushes the last range
RECURSIVE groupLoopShort(_, _, _, _, _)
groupLoopShort(ls, i, start, end, ranges) ==
  IF ~(i < Len(ls)) THEN ranges
  ELSE IF ls[i + 1] = end + 1
       THEN groupLoopShort(ls, i + 1, start, ls[i + 1], ranges)
       ELSE groupLoopShort(ls, i + 1, ls[i + 1], ls[i + 1],
                           Append(ranges, RangeStr(start, end)))

groupLinesShort(ls) ==
  IF Len(ls) = 0 THEN <<"n", "o", "n", "e">>
  ELSE Join(groupLoopShort(ls, 1, ls[1], ls[1], <<>>), <<",", " ">>)

groupLines(ls) ==
  IF Len(ls) = 0 THEN <<"n", "o", "n", "e">>
  ELSE Join(groupLoop(ls, 1, ls[1], ls[1], <<>>), <<",", " ">>)

(***************************************************************************)
(* constants.ts                                                            *)
(***************************************************************************)
DEFAULT_SERVICE == "github"
VALID_SERVICES == {"github", "gitlab", "bitbucket"}
DEFAULT_PAGE_SIZE == 25

\* pageSizeSchema: .optional().default(DEFAULT_PAGE_SIZE)
pageSizeSchema(o) == IF IsSome(o) THEN o ELSE Some(DEFAULT_PAGE_SIZE)

\* the tools whose schema has page_size
PagedTools == {"codecov_list_repositories", "codecov_list_commits", "codecov_list_pulls"}

\* the arguments a handler receives for what the caller sent: the schema
\* of the tool fills in the defaults
ParseArgs(tool, given) ==
  IF tool \in PagedTools THEN [given EXCEPT !.page_size = pageSizeSchema(@)] ELSE given

(***************************************************************************)
(* JavaScript truthiness of the optional values the client tests with      *)
(* `if (x)` and `x || y`: undefined, "" and 0 are falsy.                   *)
(***************************************************************************)
TruthyStr(o) == IsSome(o) /\ Get(o) # ""
TruthyNum(o) == IsSome(o) /\ Get(o) # 0

\* a || b on optional texts

OrElse(a, b) == IF TruthyStr(a) THEN a ELSE b

(***************************************************************************)
(* Errors.  An Error object is [name, message, statusCode, detail]; what a *)
(* client method catches is [kind, response, message]: kind "axios" with   *)
(* an optional response [status, data], kind "error" for any other Error   *)
(* (encodeURIComponent's URIError) and kind "other" for a thrown value     *)
(* that is not an Error.                                                   *)
(***************************************************************************)
PlainError(name, message) ==
  [name |-> name, message |-> message, statusCode |-> None, detail |-> None]

\* a CodecovApiError whose constructor forgets its public fields
CodecovApiErrorBare(message, statusCode, detail) ==
  [name |-> "CodecovApiError", message |-> message, statusCode |-> None, detail |-> None]

\* class CodecovApiError extends Error
CodecovApiError(message, statusCode, detail) ==
  [name |-> "CodecovApiError", message |-> message,
   statusCode |-> statusCode, detail |-> detail]

MsgAuth == "Authentication failed. Check your CODECOV_API_TOKEN."
MsgDenied == "Access denied. You may not have permission to access this resource."
MsgNotFound == "Resource not found. Check the owner, repo, or path."
MsgRateLimit == "Rate limit exceeded. Try again later."
MsgUnknownApi == "Unknown API error"
MsgUnknownOccurred == "Unknown error occurred"
MsgUnknown == "Unknown error"
MsgTokenCtor == "CODECOV_API_TOKEN is required. Set it as an environment variable."
MsgTokenEnv == "CODECOV_API_TOKEN environment variable is required. Get your token from Codecov settings: Settings > Access > Generate Token"

\* response?.data?.detail || response?.data?.message
ErrorDetail(error) ==
  IF IsSome(error.response)
  THEN OrElse(Get(error.response).data.detail, Get(error.response).data.message)
  ELSE None

ErrorStatus(error) ==
  IF IsSome(error.response) THEN Some(Get(error.response).status) ELSE None

\* a handleError that lets the backend's detail replace the fixed messages
handleErrorDetailFirst(error) ==
  IF error.kind = "axios"
  THEN LET status == ErrorStatus(error)
           detail == ErrorDetail(error)
       IN  CodecovApiError(
             Get(OrElse(detail, OrElse(Some(error.message), Some(MsgUnknownApi)))),
             status, detail)
  ELSE IF error.kind = "error"
  THEN CodecovApiError(error.message, None, None)
  ELSE CodecovApiError(MsgUnknownOccurred, None, None)

\* a handleError that prefers the transport's message to the backend's
handleErrorMessageFirst(error) ==
  IF error.kind = "axios"
  THEN LET status == ErrorStatus(error)
           detail == ErrorDetail(error)
       IN  IF status = Some(401) THEN CodecovApiError(MsgAuth, status, detail)
           ELSE IF status = Some(403) THEN CodecovApiError(MsgDenied, status, detail)
           ELSE IF status = Some(404) THEN CodecovApiError(MsgNotFound, status, detail)
           ELSE IF status = Some(429) THEN CodecovApiError(MsgRateLimit, status, detail)
           ELSE CodecovApiError(
                  Get(OrElse(Some(error.message), OrElse(detail, Some(MsgUnknownApi)))),
                  status, detail)
  ELSE IF error.kind = "error"
  THEN CodecovApiError(error.message, None, None)
  ELSE CodecovApiError(MsgUnknownOccurred, None, None)

\* CodecovClient.handleError: the CodecovApiError it throws
handleError(error) ==
  IF error.kind = "axios"
  THEN LET status == ErrorStatus(error)
           detail == ErrorDetail(error)
       IN  IF status = Some(401) THEN CodecovApiError(MsgAuth, status, detail)
           ELSE IF status = Some(403) THEN CodecovApiError(MsgDenied, status, detail)
           ELSE IF status = Some(404) THEN CodecovApiError(MsgNotFound, status, detail)
           ELSE IF status = Some(429) THEN CodecovApiError(MsgRateLimit, status, detail)
           ELSE CodecovApiError(
                  Get(OrElse(detail, OrElse(Some(error.message), Some(MsgUnknownApi)))),
                  status, detail)
  ELSE IF error.kind = "error"
  THEN CodecovApiError(error.message, None, None)
  ELSE CodecovApiError(MsgUnknownOccurred, None, None)

(***************************************************************************)
(* CodecovClient: construction, and for each method the part that runs     *)
(* before the request is sent.  A method yields [ok, req, err]: the GET it *)
(* issues, or the error thrown before any request.                         *)
(***************************************************************************)
NoReq == [path |-> <<>>, params |-> <<>>]
NoErr == PlainError("", "")

Issue(path, params) == [ok |-> TRUE, req |-> [path |-> path, params |-> params], err |-> NoErr]
Thrown(err) == [ok |-> FALSE, req |-> NoReq, err |-> err]

\* new CodecovClient(apiToken): [ok, client, err, built], built telling that
\* a new object came out of the constructor
NewCodecovClient(apiToken) ==
  IF ~TruthyStr(apiToken)
  THEN [ok |-> FALSE, client |-> None, err |-> PlainError("Error", MsgTokenCtor),
        built |-> FALSE]
  ELSE [ok |-> TRUE,
        client |-> Some([defaultService |-> DEFAULT_SERVICE, apiToken |-> Get(apiToken)]),
        err |-> NoErr, built |-> TRUE]

\* a getCodecovClient that builds the client without looking at the token
getCodecovClientUnchecked(instance, envToken) ==
  IF ~IsSome(instance)
  THEN [ok |-> TRUE,
        client |-> Some([defaultService |-> DEFAULT_SERVICE,
                         apiToken |-> IF IsSome(envToken) THEN Get(envToken) ELSE ""]),
        err |-> NoErr, built |-> TRUE]
  ELSE [ok |-> TRUE, client |-> instance, err |-> NoErr, built |-> FALSE]

\* a getCodecovClient that never looks at clientInstance and builds a
\* client for every caller
getCodecovClientFresh(instance, envToken) ==
  IF ~TruthyStr(envToken)
  THEN [ok |-> FALSE, client |-> instance, err |-> PlainError("Error", MsgTokenEnv),
        built |-> FALSE]
  ELSE NewCodecovClient(envToken)

\* a getCodecovClient that assigns clientInstance before it looks at the
\* token, so that a failed call leaves an unusable object behind
getCodecovClientSticky(instance, envToken) ==
  IF ~IsSome(instance)
  THEN IF ~TruthyStr(envToken)
       THEN [ok |-> FALSE,
             client |-> Some([defaultService |-> DEFAULT_SERVICE, apiToken |-> ""]),
             err |-> PlainError("Error", MsgTokenEnv), built |-> TRUE]
       ELSE NewCodecovClient(envToken)
  ELSE [ok |-> TRUE, client |-> instance, err |-> NoErr, built |-> FALSE]

\* getCodecovClient(): [ok, client, err, built], client being the new value
\* of clientInstance
getCodecovClient(instance, envToken) ==
  IF ~IsSome(instance)
  THEN IF ~TruthyStr(envToken)
       THEN [ok |-> FALSE, client |-> instance, err |-> PlainError("Error", MsgTokenEnv),
             built |-> FALSE]
       ELSE NewCodecovClient(envToken)
  ELSE [ok |-> TRUE, client |-> instance, err |-> NoErr, built |-> FALSE]

\* a getService that always answers the client's default
getServiceDefault(client, service) == client.defaultService

getService(client, service) ==
  IF IsSome(service) /\ Get(service) # "" THEN Get(service) ELSE client.defaultService

\* a query parameter set is a sequence of <<name, value>> pairs in the
\* order the code assigns them
\* a parameter assigned without the test, an omitted value going out empty
ParamStrAlways(name, o) == <<<<name, IF IsSome(o) THEN Get(o) ELSE "">>>>

ParamStr(name, o) == IF TruthyStr(o) THEN <<<<name, Get(o)>>>> ELSE <<>>
ParamNum(name, o) == IF TruthyNum(o) THEN <<<<name, Get(o)>>>> ELSE <<>>

\* options.active !== undefined
ParamDefined(name, o) == IF IsSome(o) THEN <<<<name, Get(o)>>>> ELSE <<>>

\* options.names?.length, joined with ","
ParamNames(o) ==
  IF IsSome(o) /\ Len(Get(o)) > 0
  THEN <<<<"names", Join([k \in 1..Len(Get(o)) |-> <<Get(o)[k]>>], <<",">>)>>>>
  ELSE <<>>

PageSizeParam(o) ==
  <<<<"page_size", IF TruthyNum(o) THEN Get(o) ELSE DEFAULT_PAGE_SIZE>>>>

\* encodeURIComponent on a string given as a sequence of characters: the
\* unreserved characters stay, the others are percent-encoded, and a lone
\* surrogate makes it throw URIError
LoneSurrogate == "\\uD800"
MsgUriMalformed == "URI malformed"

\* a character outside ASCII, and the bytes of the UTF-8 encoding of the
\* characters that are percent-encoded
EAcute == "\\u00E9"

Unreserved ==
  {"a", "b", "c", "d", "e", "f", "g", "h", "i", "j", "k", "l", "m", "n", "o", "p", "q",
   "r", "s", "t", "u", "v", "w", "x", "y", "z",
   "A", "B", "C", "D", "E", "F", "G", "H", "I", "J", "K", "L", "M", "N", "O", "P", "Q",
   "R", "S", "T", "U", "V", "W", "X", "Y", "Z",
   "0", "1", "2", "3", "4", "5", "6", "7", "8", "9",
   "-", "_", ".", "!", "~", "*", "'", "(", ")"}

Utf8 ==
  (" " :> <<32>>) @@ ("#" :> <<35>>) @@ ("$" :> <<36>>) @@ ("%" :> <<37>>)
    @@ ("&" :> <<38>>) @@ ("+" :> <<43>>) @@ ("," :> <<44>>) @@ ("/" :> <<47>>)
    @@ (":" :> <<58>>) @@ (";" :> <<59>>) @@ ("=" :> <<61>>) @@ ("?" :> <<63>>)
    @@ ("@" :> <<64>>) @@ (EAcute :> <<195, 169>>)

HexDigits == <<"0", "1", "2", "3", "4", "5", "6", "7", "8", "9", "A", "B", "C", "D", "E", "F">>

\* "%XX" for every byte
RECURSIVE PercentBytes(_)
PercentBytes(bytes) ==
  IF Len(bytes) = 0 THEN <<>>
  ELSE <<"%", HexDigits[(bytes[1] \div 16) + 1], HexDigits[(bytes[1] % 16) + 1]>>
         \o PercentBytes(Tail(bytes))

\* encodeURI, which leaves the reserved characters ; / ? : @ & = + $ , #
RECURSIVE encodeURI(_)
encodeURI(str) ==
  IF Len(str) = 0 THEN <<>>
  ELSE (IF str[1] \in Unreserved \cup {";", "/", "?", ":", "@", "&", "=", "+", "$", ",", "#"}
        THEN <<str[1]>> ELSE PercentBytes(Utf8[str[1]]))
         \o encodeURI(Tail(str))

EncodeChar(c) == IF c \in Unreserved THEN <<c>> ELSE PercentBytes(Utf8[c])

RECURSIVE encodeURIComponent(_)
encodeURIComponent(str) ==
  IF Len(str) = 0 THEN <<>> ELSE EncodeChar(str[1]) \o encodeURIComponent(Tail(str))

UriMalformed(str) == \E k \in 1..Len(str) : str[k] = LoneSurrogate

ReposPath(service, owner) == <<"/", service, "/", owner, "/", "repos", "/">>

listRepositories(client, owner, options) ==
  Issue(ReposPath(getService(client, options.service), owner),
        PageSizeParam(options.page_size) \o ParamNum("page", options.page)
          \o ParamDefined("active", options.active) \o ParamNames(options.names))

getRepository(client, owner, repo, service) ==
  Issue(ReposPath(getService(client, service), owner) \o <<repo, "/">>, <<>>)

getCoverageTotals(client, owner, repo, options) ==
  Issue(ReposPath(getService(client, options.service), owner) \o <<repo, "/", "totals", "/">>,
        ParamStr("sha", options.sha) \o ParamStr("branch", options.branch))

getFileCoverage(client, owner, repo, path, options) ==
  IF UriMalformed(path)
  THEN Thrown(handleError([kind |-> "error", response |-> None, message |-> MsgUriMalformed]))
  ELSE Issue(ReposPath(getService(client, options.service), owner)
               \o <<repo, "/", "file_report", "/">> \o encodeURIComponent(path) \o <<"/">>,
             ParamStr("sha", options.sha) \o ParamStr("branch", options.branch))

getCoverageTree(client, owner, repo, options) ==
  Issue(ReposPath(getService(client, options.service), owner)
          \o <<repo, "/", "report", "/", "tree">>,
        ParamStr("sha", options.sha) \o ParamStr("branch", options.branch)
          \o ParamStr("path", options.path) \o ParamNum("depth", options.depth))

\* a compareCoverage in which pullid takes precedence over base and head
compareCoveragePullFirst(client, owner, repo, options) ==
  Issue(ReposPath(getService(client, options.service), owner) \o <<repo, "/", "compare", "/">>,
        IF TruthyNum(options.pullid) THEN ParamNum("pullid", options.pullid)
        ELSE ParamStr("base", options.base) \o ParamStr("head", options.head))

compareCoverage(client, owner, repo, options) ==
  Issue(ReposPath(getService(client, options.service), owner) \o <<repo, "/", "compare", "/">>,
        ParamStr("base", options.base) \o ParamStr("head", options.head)
          \o ParamNum("pullid", options.pullid))

listCommits(client, owner, repo, options) ==
  Issue(ReposPath(getService(client, options.service), owner) \o <<repo, "/", "commits", "/">>,
        PageSizeParam(options.page_size) \o ParamNum("page", options.page)
          \o ParamStr("branch", options.branch))

listPullRequests(client, owner, repo, options) ==
  Issue(ReposPath(getService(client, options.service), owner) \o <<repo, "/", "pulls", "/">>,
        PageSizeParam(options.page_size) \o ParamNum("page", options.page)
          \o ParamStr("state", options.state))

(***************************************************************************)
(* Number formatting.  Number.prototype.toFixed(f) on a value given in     *)
(* thousandths, f = 1 or 2: sign, integer part, ".", f digits, rounded to  *)
(* the nearest with ties away from zero.                                   *)
(***************************************************************************)
Abs(x) == IF x < 0 THEN 0 - x ELSE x
Pow10(f) == IF f = 0 THEN 1 ELSE IF f = 1 THEN 10 ELSE IF f = 2 THEN 100 ELSE 1000

RECURSIVE PadDigits(_, _)
PadDigits(n, width) ==
  IF width = 0 THEN <<>>
  ELSE PadDigits(n \div 10, width - 1) \o <<Digits[(n % 10) + 1]>>

toFixed(x, f) ==
  LET unit == Pow10(3 - f)
      n == (Abs(x) + (unit \div 2)) \div unit
  IN  (IF x < 0 THEN <<"-">> ELSE <<>>)
        \o NatToStr(n \div Pow10(f)) \o <<".">> \o PadDigits(n % Pow10(f), f)

\* x?.toFixed(2) + "%": an undefined x is stringified by the concatenation
OptFixed2Pct(o) ==
  (IF IsSome(o) THEN toFixed(Get(o), 2) ELSE <<"undefined">>) \o <<"%">>

\* x !== undefined ? x.toFixed(2) + "%" : "N/A"
Fixed2PctOrNA(o) == IF IsSome(o) THEN toFixed(Get(o), 2) \o <<"%">> ELSE <<"N", "/", "A">>

\* String.prototype.substring(0, 7)
Substring07(str) == SubSeq(str, 1, IF Len(str) < 7 THEN Len(str) ELSE 7)

(***************************************************************************)
(* Summaries.  A summariser yields [ok, text, err]: the text of the        *)
(* success result, or the TypeError it throws.  A text is [json, str]:     *)
(* the object handed to JSON.stringify and the characters appended to it   *)
(* (for the tree and for error results, json is empty and str is the       *)
(* whole text).  The body of a 2xx response is <<data>> when it has the    *)
(* shape types.ts declares and <<>> when it is the empty object {}.        *)
(***************************************************************************)
NoText == [json |-> <<>>, str |-> <<>>]
SummaryOk(json, str) == [ok |-> TRUE, text |-> [json |-> <<json>>, str |-> str], err |-> NoErr]
SummaryThrows(message) == [ok |-> FALSE, text |-> NoText, err |-> PlainError("TypeError", message)]

MsgReadUndefined == "Cannot read properties of undefined"
MsgNotIterable == "result is not iterable"

\* codecov_get_coverage_totals
SummarizeTotals(body) ==
  IF ~IsSome(body) THEN SummaryThrows(MsgReadUndefined)
  ELSE LET result == Get(body)
           totals == result.totals
       IN  SummaryOk(
             [coverage_percentage |-> OptFixed2Pct(totals.coverage),
              lines |-> [total |-> totals.lines, covered |-> totals.hits,
                         missed |-> totals.misses, partial |-> totals.partials],
              files_count |-> totals.files,
              commit_sha |-> result.commit_sha], <<>>)

\* a classification loop that looks at the partial flag before the count
RECURSIVE ClassLinesFlagFirst(_, _)
ClassLinesFlagFirst(lineCoverage, class) ==
  IF Len(lineCoverage) = 0 THEN <<>>
  ELSE LET line == lineCoverage[1]
           c == IF IsSome(line.coverage) /\ line.is_partial_hit = Some(TRUE) THEN "partial"
                ELSE IF line.coverage = Some(0) THEN "missed"
                ELSE IF IsSome(line.coverage) /\ Get(line.coverage) > 0 THEN "covered"
                ELSE "none"
       IN  (IF c = class THEN <<line.line_number>> ELSE <<>>)
             \o ClassLinesFlagFirst(Tail(lineCoverage), class)

\* the classification loop of codecov_get_file_coverage: the line numbers
\* of one class, in input order
RECURSIVE ClassLines(_, _)
ClassLines(lineCoverage, class) ==
  IF Len(lineCoverage) = 0 THEN <<>>
  ELSE LET line == lineCoverage[1]
           c == IF line.coverage = Some(0) THEN "missed"
                ELSE IF IsSome(line.coverage) /\ Get(line.coverage) > 0
                     THEN IF line.is_partial_hit = Some(TRUE) THEN "partial" ELSE "covered"
                     ELSE "none"
       IN  (IF c = class THEN <<line.line_number>> ELSE <<>>)
             \o ClassLines(Tail(lineCoverage), class)

\* codecov_get_file_coverage; for the body {} every field read is undefined
SummarizeFile(body) ==
  LET lineCoverage == IF IsSome(body) THEN Get(body).line_coverage ELSE <<>>
      missedLines == ClassLines(lineCoverage, "missed")
      partialLines == ClassLines(lineCoverage, "partial")
  IN  SummaryOk(
        [file |-> IF IsSome(body) THEN Some(Get(body).name) ELSE None,
         commit_sha |-> IF IsSome(body) THEN Some(Get(body).commit_sha) ELSE None,
         coverage_percentage |->
           OptFixed2Pct(IF IsSome(body) THEN Get(body).totals.coverage ELSE None),
         uncovered_lines |-> groupLines(missedLines),
         partial_lines |-> groupLines(partialLines),
         uncovered_line_count |-> Len(missedLines)], <<>>)

\* an indentation of one space per level
IndentSingle(depth) == [k \in 1..depth |-> " "]

\* "  ".repeat(depth)
RECURSIVE Indent(_)
Indent(depth) == IF depth = 0 THEN <<>> ELSE <<" ", " ">> \o Indent(depth - 1)

\* formatNode of codecov_get_coverage_tree
RECURSIVE formatNode(_, _)
RECURSIVE formatChildren(_, _)
formatNode(node, depth) ==
  LET coverage == IF IsSome(node.coverage) THEN toFixed(Get(node.coverage), 1)
                  ELSE <<"N", "/", "A">>
      isDir == IsSome(node.children) /\ Len(Get(node.children)) > 0
      line == Indent(depth) \o <<IF isDir THEN "[dir]" ELSE "[file]", " ", node.name, " ", "-", " ">>
                \o coverage \o <<"%", " ", "(">> \o IntToStr(node.hits) \o <<"/">>
                \o IntToStr(node.lines) \o <<" ", "l", "i", "n", "e", "s", ")">>
  IN  IF isDir THEN line \o formatChildren(Get(node.children), depth + 1) ELSE line

formatChildren(children, depth) ==
  IF Len(children) = 0 THEN <<>>
  ELSE <<"\n">> \o formatNode(children[1], depth) \o formatChildren(Tail(children), depth)

RECURSIVE formatRoots(_)
formatRoots(result) ==
  IF Len(result) = 0 THEN <<>>
  ELSE formatNode(result[1], 0) \o <<"\n">> \o formatRoots(Tail(result))

\* codecov_get_coverage_tree
SummarizeTree(body) ==
  IF ~IsSome(body) THEN SummaryThrows(MsgNotIterable)
  ELSE [ok |-> TRUE,
        text |-> [json |-> <<>>, str |-> <<"Coverage Tree:", "\n", "\n">> \o formatRoots(Get(body))],
        err |-> NoErr]

\* a page_info that looks at the page's items instead of the cursor
PageInfoByItems(result) ==
  [has_next |-> Len(result.results) > 0,
   has_previous |-> TruthyStr(result.previous),
   total_pages |-> result.total_pages]

\* the pagination part of the three list summaries
PageInfo(result) ==
  [has_next |-> TruthyStr(result.next),
   has_previous |-> TruthyStr(result.previous),
   total_pages |-> result.total_pages]

TotalsCoverage(totals) == IF IsSome(totals) THEN Get(totals).coverage ELSE None

\* commit.author?.username ?? commit.author?.name ?? "Unknown"
AuthorName(author) ==
  IF IsSome(author) /\ IsSome(Get(author).username) THEN Get(Get(author).username)
  ELSE IF IsSome(author) /\ IsSome(Get(author).name) THEN Get(Get(author).name)
  ELSE "Unknown"

\* codecov_list_repositories
SummarizeRepositories(body) ==
  IF ~IsSome(body) THEN SummaryThrows(MsgReadUndefined)
  ELSE LET result == Get(body)
       IN  SummaryOk(
             [total_count |-> result.count,
              page_info |-> PageInfo(result),
              repositories |-> [k \in 1..Len(result.results) |->
                           [name |-> result.results[k].name,
                            active |-> result.results[k].active,
                            coverage |-> Fixed2PctOrNA(TotalsCoverage(result.results[k].totals))]]],
             <<>>)

\* codecov_get_repository; coverage is the object <<[...]>> or the text
\* that stands for it
SummarizeRepository(body) ==
  IF ~IsSome(body) THEN SummaryThrows(MsgReadUndefined)
  ELSE LET result == Get(body)
       IN  SummaryOk(
             [name |-> result.name,
              active |-> result.active,
              owner |-> [username |-> result.author.username, service |-> result.author.service],
              coverage |-> IF IsSome(result.totals)
                           THEN Some([percentage |-> OptFixed2Pct(Get(result.totals).coverage),
                                      lines |-> Get(result.totals).lines,
                                      hits |-> Get(result.totals).hits])
                           ELSE <<"No coverage data available">>],
             <<>>)

\* codecov_list_commits
SummarizeCommits(body) ==
  IF ~IsSome(body) THEN SummaryThrows(MsgReadUndefined)
  ELSE LET result == Get(body)
       IN  SummaryOk(
             [total_count |-> result.count,
              page_info |-> PageInfo(result),
              commits |-> [k \in 1..Len(result.results) |->
                           [sha |-> result.results[k].commitid,
                            short_sha |-> Substring07(result.results[k].commitid),
                            message |-> IF IsSome(result.results[k].message)
                                        THEN Some(Get(result.results[k].message)[1])
                                        ELSE None,
                            author |-> AuthorName(result.results[k].author),
                            coverage |-> Fixed2PctOrNA(TotalsCoverage(result.results[k].totals))]]],
             <<>>)

CommitRef(ref) ==
  IF IsSome(ref)
  THEN Some([branch |-> Get(ref).branch, commit |-> Substring07(Get(ref).commitid)])
  ELSE None

\* codecov_list_pulls
SummarizePulls(body) ==
  IF ~IsSome(body) THEN SummaryThrows(MsgReadUndefined)
  ELSE LET result == Get(body)
       IN  SummaryOk(
             [total_count |-> result.count,
              page_info |-> PageInfo(result),
              pull_requests |-> [k \in 1..Len(result.results) |->
                           [id |-> result.results[k].pullid,
                            state |-> result.results[k].state,
                            author |-> AuthorName(result.results[k].author),
                            base |-> CommitRef(result.results[k].base),
                            head |-> CommitRef(result.results[k].head)]]],
             <<>>)

(***************************************************************************)
(* codecov_compare_coverage (tools/comparison.ts)                          *)
(***************************************************************************)
RECURSIVE TakeDigits(_)
TakeDigits(str) ==
  IF Len(str) > 0 /\ IsDigit(str[1]) THEN <<str[1]>> \o TakeDigits(Tail(str)) ELSE <<>>

\* the value, in thousandths, of the digits after the decimal point
FractionMilli(fp) ==
  (IF Len(fp) >= 1 THEN 100 * DigitVal(fp[1]) ELSE 0)
    + (IF Len(fp) >= 2 THEN 10 * DigitVal(fp[2]) ELSE 0)
    + (IF Len(fp) >= 3 THEN DigitVal(fp[3]) ELSE 0)

\* parseFloat: an optional sign, digits, an optional fraction, the rest of
\* the string ignored; <<>> is NaN
parseFloat(str) ==
  LET signed == Len(str) > 0 /\ str[1] \in {"+", "-"}
      negative == Len(str) > 0 /\ str[1] = "-"
      rest == IF signed THEN Tail(str) ELSE str
      ip == TakeDigits(rest)
      after == SubSeq(rest, Len(ip) + 1, Len(rest))
      fp == IF Len(after) > 0 /\ after[1] = "." THEN TakeDigits(Tail(after)) ELSE <<>>
      magnitude == StrToNat(ip, 0) * 1000 + FractionMilli(fp)
  IN  IF Len(ip) = 0 /\ Len(fp) = 0 THEN None
      ELSE Some(IF negative THEN 0 - magnitude ELSE magnitude)

\* parseFloat(change) || 0
SortKey(entry) ==
  LET parsed == parseFloat(entry.change) IN IF IsSome(parsed) THEN Get(parsed) ELSE 0

\* a change string that signs only the strictly positive deltas
ChangeStrStrict(change) ==
  IF IsSome(change)
  THEN (IF Get(change) > 0 THEN <<"+">> ELSE <<>>) \o toFixed(Get(change), 2) \o <<"%">>
  ELSE <<"N", "/", "A">>

\* (change >= 0 ? "+" : "") + change.toFixed(2) + "%", or "N/A" for null
ChangeStr(change) ==
  IF IsSome(change)
  THEN (IF Get(change) >= 0 THEN <<"+">> ELSE <<>>) \o toFixed(Get(change), 2) \o <<"%">>
  ELSE <<"N", "/", "A">>

\* .filter((f) => f.has_diff || f.change_summary)
PassesFilter(f) == f.has_diff \/ IsSome(f.change_summary)

\* a filter that keeps every file
FilterFilesAll(files) == files

RECURSIVE FilterFiles(_)
FilterFiles(files) ==
  IF Len(files) = 0 THEN <<>>
  ELSE (IF PassesFilter(files[1]) THEN <<files[1]>> ELSE <<>>) \o FilterFiles(Tail(files))

\* the .map callback
MapFile(file) ==
  LET baseCov == TotalsCoverage(file.totals.base)
      headCov == TotalsCoverage(file.totals.head)
      change == IF IsSome(baseCov) /\ IsSome(headCov)
                THEN Some(Get(headCov) - Get(baseCov)) ELSE None
  IN  [name |-> file.name,
       base_coverage |-> Fixed2PctOrNA(baseCov),
       head_coverage |-> Fixed2PctOrNA(headCov),
       change |-> ChangeStr(change),
       patch |-> IF IsSome(file.totals.patch)
                 THEN Some([coverage |-> OptFixed2Pct(Get(file.totals.patch).coverage),
                            hits |-> Get(file.totals.patch).hits,
                            misses |-> Get(file.totals.patch).misses])
                 ELSE None,
       lines_added |-> IF IsSome(file.stats) THEN Get(file.stats).added ELSE 0,
       lines_removed |-> IF IsSome(file.stats) THEN Get(file.stats).removed ELSE 0]

\* changedFiles.sort((a, b) => aChange - bChange): Array.prototype.sort is
\* stable, so an entry goes after every entry whose key is not greater
RECURSIVE InsertByChange(_, _)
InsertByChange(sorted, entry) ==
  IF Len(sorted) = 0 THEN <<entry>>
  ELSE IF SortKey(sorted[1]) <= SortKey(entry)
       THEN <<sorted[1]>> \o InsertByChange(Tail(sorted), entry)
       ELSE <<entry>> \o sorted

RECURSIVE SortByChange(_)
SortByChange(entries) ==
  IF Len(entries) = 0 THEN <<>>
  ELSE InsertByChange(SortByChange(SubSeq(entries, 1, Len(entries) - 1)),
                      entries[Len(entries)])

\* Array.prototype.slice(0, n)
Slice0(arr, n) == SubSeq(arr, 1, IF Len(arr) < n THEN Len(arr) ELSE n)

FILES_LIMIT == 20
UNTRACKED_LIMIT == 10

WarningHeader == "\n\n(!) Untracked files (new files without coverage):\n"

\* a warning whose suffix also appears for exactly UNTRACKED_LIMIT files
UntrackedWarningOffByOne(untracked) ==
  IF Len(untracked) > 0
  THEN <<WarningHeader>>
         \o Join([k \in 1..Len(Slice0(untracked, UNTRACKED_LIMIT)) |-> <<untracked[k]>>], <<"\n">>)
         \o (IF Len(untracked) >= UNTRACKED_LIMIT
             THEN <<"\n... and ">> \o IntToStr(Len(untracked) - UNTRACKED_LIMIT) \o <<" more">>
             ELSE <<>>)
  ELSE <<>>

\* the warning appended to the text
UntrackedWarning(untracked) ==
  IF Len(untracked) > 0
  THEN <<WarningHeader>>
         \o Join([k \in 1..Len(Slice0(untracked, UNTRACKED_LIMIT)) |-> <<untracked[k]>>], <<"\n">>)
         \o (IF Len(untracked) > UNTRACKED_LIMIT
             THEN <<"\n... and ">> \o IntToStr(Len(untracked) - UNTRACKED_LIMIT) \o <<" more">>
             ELSE <<>>)
  ELSE <<>>

SummarizeComparison(body) ==
  IF ~IsSome(body) THEN SummaryThrows(MsgReadUndefined)
  ELSE LET result == Get(body)
           baseCoverage == TotalsCoverage(result.totals.base)
           headCoverage == result.totals.head.coverage
           changedFiles == SortByChange([k \in 1..Len(FilterFiles(result.files)) |->
                                           MapFile(FilterFiles(result.files)[k])])
       IN  IF ~IsSome(headCoverage) THEN SummaryThrows(MsgReadUndefined)
           ELSE SummaryOk(
                  [comparison |->
                     [base_commit |-> IF IsSome(result.base_commit)
                                      THEN Substring07(Get(result.base_commit))
                                      ELSE <<"N", "/", "A">>,
                      head_commit |-> Substring07(result.head_commit)],
                   coverage_totals |->
                     [base |-> Fixed2PctOrNA(baseCoverage),
                      head |-> toFixed(Get(headCoverage), 2) \o <<"%">>,
                      change |-> ChangeStr(IF IsSome(baseCoverage)
                                           THEN Some(Get(headCoverage) - Get(baseCoverage))
                                           ELSE None)],
                   patch_coverage |->
                     IF IsSome(result.totals.patch)
                     THEN Some([percentage |-> OptFixed2Pct(Get(result.totals.patch).coverage),
                                hits |-> Get(result.totals.patch).hits,
                                misses |-> Get(result.totals.patch).misses,
                                partials |-> Get(result.totals.patch).partials])
                     ELSE <<"No patch coverage data">>,
                   files_changed |-> Len(changedFiles),
                   untracked_files |-> Len(result.untracked),
                   has_unmerged_base_commits |-> result.has_unmerged_base_commits,
                   changed_files |-> Slice0(changedFiles, FILES_LIMIT)],
                  UntrackedWarning(result.untracked))

(***************************************************************************)
(* The tool handlers.  A handler runs without interruption up to its       *)
(* await: it obtains the client, the client method builds the request and  *)
(* sends it.  It resumes when the request settles: a 2xx body is           *)
(* summarised, a failure goes through handleError, and whatever is thrown  *)
(* anywhere inside the try block is turned into an error result by the     *)
(* catch block.                                                            *)
(***************************************************************************)
Invs == 1..NumInv

NoArgs ==
  [owner |-> "", repo |-> "", path |-> None, service |-> None, branch |-> None,
   sha |-> None, depth |-> None, page |-> None, page_size |-> None, active |-> None,
   names |-> None, state |-> None, base |-> None, head |-> None, pullid |-> None]

NoOutcome == [kind |-> "none", body |-> None, error |-> [kind |-> "", response |-> None, message |-> ""]]
OkOutcome(body) == [NoOutcome EXCEPT !.kind = "ok", !.body = body]
FailOutcome(error) == [NoOutcome EXCEPT !.kind = "fail", !.error = error]

\* client is the object getCodecovClient returned to the invocation, named
\* by its rank among the objects the constructor has built
\* given is what the caller sent, args what the handler received
IdleInv ==
  [pc |-> "idle", tool |-> "", given |-> NoArgs, args |-> NoArgs, client |-> None,
   requests |-> <<>>,
   outcome |-> NoOutcome, results |-> <<>>, caught |-> <<>>, escaped |-> <<>>]

\* return { content: [{ type: "text", text }] }
SuccessResult(text) ==
  [content |-> <<[type |-> "text", text |-> text]>>, isError |-> FALSE]

\* the catch block: error instanceof Error ? error.message : "Unknown error"
ErrorResult(error) ==
  [content |-> <<[type |-> "text",
                  text |-> [json |-> <<>>,
                            str |-> <<"Error: ",
                                      IF error.name # "" THEN error.message ELSE MsgUnknown>>]]>>,
   isError |-> TRUE]

\* the client method each handler calls, with the options it passes
ClientCall(tool, client, args) ==
  CASE tool = "codecov_get_coverage_totals" -> getCoverageTotals(client, args.owner, args.repo, args)
    [] tool = "codecov_get_file_coverage" ->
         getFileCoverage(client, args.owner, args.repo, Get(args.path), args)
    [] tool = "codecov_get_coverage_tree" -> getCoverageTree(client, args.owner, args.repo, args)
    [] tool = "codecov_list_repositories" -> listRepositories(client, args.owner, args)
    [] tool = "codecov_get_repository" -> getRepository(client, args.owner, args.repo, args.service)
    [] tool = "codecov_list_commits" -> listCommits(client, args.owner, args.repo, args)
    [] tool = "codecov_list_pulls" -> listPullRequests(client, args.owner, args.repo, args)
    [] tool = "codecov_compare_coverage" -> compareCoverage(client, args.owner, args.repo, args)

\* the summary each handler builds from the response
Summarize(tool, body) ==
  CASE tool = "codecov_get_coverage_totals" -> SummarizeTotals(body)
    [] tool = "codecov_get_file_coverage" -> SummarizeFile(body)
    [] tool = "codecov_get_coverage_tree" -> SummarizeTree(body)
    [] tool = "codecov_list_repositories" -> SummarizeRepositories(body)
    [] tool = "codecov_get_repository" -> SummarizeRepository(body)
    [] tool = "codecov_list_commits" -> SummarizeCommits(body)
    [] tool = "codecov_list_pulls" -> SummarizePulls(body)
    [] tool = "codecov_compare_coverage" -> SummarizeComparison(body)

\* a handler whose client method sends its request a second time
HandlerStartTwice(tool, args, instance, envToken) ==
  LET c == getCodecovClient(instance, envToken)
      m == IF c.ok THEN ClientCall(tool, Get(c.client), args) ELSE Thrown(c.err)
  IN  [instance |-> c.client,
       built |-> c.built,
       obtained |-> c.ok,
       inv |-> IF m.ok
               THEN [IdleInv EXCEPT !.pc = "awaiting", !.tool = tool, !.args = args,
                                    !.requests = <<m.req, m.req>>]
               ELSE [IdleInv EXCEPT !.pc = "done", !.tool = tool, !.args = args,
                                    !.caught = <<m.err>>,
                                    !.results = <<ErrorResult(m.err)>>]]

\* the handler from its first line to the await: the new value of
\* clientInstance, whether a client was built and whether one was obtained,
\* and the invocation, which is either waiting for its request or has
\* returned the error result of the catch block
HandlerStart(tool, args, instance, envToken) ==
  LET c == getCodecovClient(instance, envToken)
      m == IF c.ok THEN ClientCall(tool, Get(c.client), args) ELSE Thrown(c.err)
  IN  [instance |-> c.client,
       built |-> c.built,
       obtained |-> c.ok,
       inv |-> IF m.ok
               THEN [IdleInv EXCEPT !.pc = "awaiting", !.tool = tool, !.args = args,
                                    !.requests = <<m.req>>]
               ELSE [IdleInv EXCEPT !.pc = "done", !.tool = tool, !.args = args,
                                    !.caught = <<m.err>>,
                                    !.results = <<ErrorResult(m.err)>>]]

\* a handler whose summary is built after the try block, so that what the
\* summariser throws is not caught
HandlerResumeNoCatch(tool, outcome) ==
  IF outcome.kind = "ok"
  THEN LET s == Summarize(tool, outcome.body)
       IN  IF s.ok THEN [results |-> <<SuccessResult(s.text)>>, caught |-> <<>>, escaped |-> <<>>]
           ELSE [results |-> <<>>, caught |-> <<>>, escaped |-> <<s.err>>]
  ELSE LET e == handleError(outcome.error)
       IN  [results |-> <<ErrorResult(e)>>, caught |-> <<e>>, escaped |-> <<>>]

\* the handler after the await, the request having settled with outcome:
\* the results it returns, the error its catch block caught and the error
\* that left the handler
HandlerResume(tool, outcome) ==
  IF outcome.kind = "ok"
  THEN LET s == Summarize(tool, outcome.body)
       IN  IF s.ok THEN [results |-> <<SuccessResult(s.text)>>, caught |-> <<>>, escaped |-> <<>>]
           ELSE [results |-> <<ErrorResult(s.err)>>, caught |-> <<s.err>>, escaped |-> <<>>]
  ELSE LET e == handleError(outcome.error)
       IN  [results |-> <<ErrorResult(e)>>, caught |-> <<e>>, escaped |-> <<>>]

(***************************************************************************)
(* What the callers send and what the backend answers                      *)
(***************************************************************************)
SeqsUpTo(S, n) == UNION {[1..k -> S] : k \in 0..n}

Services == {None, Some("gitlab")}
Base == [NoArgs EXCEPT !.owner = "acme", !.repo = "widgets"]

GoodPath == <<"s", "r", "c", "/", "a", " ", "b", ".", "t", "s">>
BadPath == <<"a", LoneSurrogate>>

WithRef(a) == {a, [a EXCEPT !.branch = Some("main"), !.sha = Some("abc123")]}
WithService(a) == {[a EXCEPT !.service = sv] : sv \in Services}
WithPage(a) == {[a EXCEPT !.page_size = Some(DEFAULT_PAGE_SIZE)],
                [a EXCEPT !.page_size = Some(50), !.page = Some(2)]}

ArgsOf(tool) ==
  CASE tool = "codecov_get_coverage_totals" -> UNION {WithRef(a) : a \in WithService(Base)}
    [] tool = "codecov_get_file_coverage" ->
         UNION {WithRef([a EXCEPT !.path = Some(p)]) : a \in WithService(Base), p \in {GoodPath, BadPath}}
    [] tool = "codecov_get_coverage_tree" ->
         UNION {{a, [a EXCEPT !.path = Some("src"), !.depth = Some(2)]} : a \in WithService(Base)}
    [] tool = "codecov_list_repositories" ->
         UNION {{a, [a EXCEPT !.active = Some(FALSE), !.names = Some(<<"widgets", "gears">>)]} :
                a \in UNION {WithPage(b) : b \in WithService(Base)}}
    [] tool = "codecov_get_repository" -> WithService(Base)
    [] tool = "codecov_list_commits" ->
         UNION {{a, [a EXCEPT !.branch = Some("main")]} : a \in UNION {WithPage(b) : b \in WithService(Base)}}
    [] tool = "codecov_list_pulls" ->
         UNION {{a, [a EXCEPT !.state = Some("open")]} : a \in UNION {WithPage(b) : b \in WithService(Base)}}
    [] tool = "codecov_compare_coverage" ->
         UNION {{a, [a EXCEPT !.base = Some("main"), !.head = Some("feature")],
                 [a EXCEPT !.pullid = Some(7)],
                 [a EXCEPT !.base = Some("main"), !.head = Some("feature"), !.pullid = Some(7)]} :
                a \in WithService(Base)}

\* failures of a request: an HTTP status with the error body the backend
\* sent, or no response at all
Statuses == {400, 401, 403, 404, 429, 500}
Details == {None, Some(""), Some("Not found.")}
Messages == {None, Some("backend says no")}

HttpErrors ==
  {[kind |-> "axios",
    response |-> Some([status |-> st, data |-> [detail |-> d, message |-> m]]),
    message |-> "Request failed with status code " \o ToString(st)] :
   st \in Statuses, d \in Details, m \in Messages}

NetworkErrors ==
  {[kind |-> "axios", response |-> None, message |-> msg] :
   msg \in {"Network Error", "timeout of 1000ms exceeded"}}

\* response bodies of the shapes types.ts declares
Totals(coverage, lines, hits) ==
  [files |-> 3, lines |-> lines, hits |-> hits, misses |-> lines - hits, partials |-> 0,
   coverage |-> Some(coverage)]

SomeTotals == {Totals(85714, 7, 6), Totals(100000, 4, 4)}

\* totals of a commit without a report: no percentage
NoCoverageTotals == [Totals(0, 0, 0) EXCEPT !.coverage = None]

TotalsBodies ==
  {[totals |-> t, commit_sha |-> "abc123"] : t \in SomeTotals \cup {NoCoverageTotals}}

Line(n, coverage, partial) == [line_number |-> n, coverage |-> coverage, is_partial_hit |-> partial]

FileBodies ==
  {[name |-> "src/a b.ts", totals |-> Totals(85714, 7, 6), commit_sha |-> "abc123",
    line_coverage |-> lc] :
   lc \in {<<>>,
           <<Line(1, Some(1), None), Line(2, None, None), Line(3, Some(0), Some(FALSE)),
             Line(4, Some(0), None), Line(5, Some(2), Some(TRUE)), Line(7, Some(0), Some(TRUE))>>}}

Node(name, coverage, children) ==
  [name |-> name, coverage |-> coverage, lines |-> 10, hits |-> 8, children |-> children]

TreeBodies ==
  {<<>>,
   <<Node("README.md", Some(100000), None)>>,
   <<Node("src", Some(85714), Some(<<Node("a.ts", Some(50000), Some(<<>>)),
                                     Node("lib", None, Some(<<Node("b.ts", Some(99950), None)>>))>>)),
     Node("index.ts", None, None)>>}

Cursors == {None, Some("https://api.codecov.io/api/v2/page")}

Paginated(Items) ==
  {[count |-> c, next |-> n, previous |-> pv, results |-> r, total_pages |-> tp] :
   c \in {0, 57}, n \in Cursors, pv \in Cursors, r \in Items, tp \in {1, 3}}

Repo(name, totals) ==
  [name |-> name, active |-> TRUE, author |-> [service |-> "github", username |-> "acme"],
   totals |-> totals]

RepositoryBodies == {Repo("widgets", None), Repo("widgets", Some(Totals(85714, 7, 6)))}

CommitId == <<"a", "b", "c", "1", "2", "3", "d", "e", "f">>

CommitItem(message, author, totals) ==
  [commitid |-> CommitId, message |-> message, author |-> author, totals |-> totals]

SomeCommits ==
  {<<>>,
   <<CommitItem(None, None, None)>>,
   <<CommitItem(Some(<<"fix bug", "details">>), Some([username |-> None, name |-> Some("Ann")]),
                Some(Totals(85714, 7, 6))),
     CommitItem(Some(<<"">>), Some([username |-> Some("bob"), name |-> None]), None)>>}

PullItem(author, base, head) ==
  [pullid |-> 7, state |-> "open", author |-> author, base |-> base, head |-> head]

SomePulls ==
  {<<>>,
   <<PullItem(None, None, None)>>,
   <<PullItem(Some([username |-> Some("bob"), name |-> None]),
              Some([commitid |-> CommitId, branch |-> Some("main")]),
              Some([commitid |-> CommitId, branch |-> None]))>>}

SomeRepos ==
  {<<>>, <<Repo("widgets", None)>>, <<Repo("widgets", Some(Totals(85714, 7, 6))), Repo("gears", None)>>}

File(name, base, head, hasDiff, changeSummary) ==
  [name |-> name,
   totals |-> [base |-> IF IsSome(base) THEN Some(Totals(Get(base), 100, 50)) ELSE None,
               head |-> IF IsSome(head) THEN Some(Totals(Get(head), 100, 50)) ELSE None,
               patch |-> None],
   has_diff |-> hasDiff,
   stats |-> None,
   change_summary |-> IF changeSummary THEN Some([hits |-> 1, misses |-> 0, partials |-> 0]) ELSE None]

Comparison(base, head, files, untracked) ==
  [base_commit |-> IF IsSome(base) THEN Some(CommitId) ELSE None,
   head_commit |-> CommitId,
   totals |-> [base |-> IF IsSome(base) THEN Some(Totals(Get(base), 100, 50)) ELSE None,
               head |-> Totals(head, 100, 50),
               patch |-> None],
   files |-> files,
   untracked |-> untracked,
   has_unmerged_base_commits |-> FALSE]

\* the example of the spec's section 8: a 90 -> 80, b 50 -> 95, c unchanged
ExampleFiles ==
  <<File("a", Some(90000), Some(80000), TRUE, FALSE),
    File("b", Some(50000), Some(95000), TRUE, FALSE),
    File("c", Some(70000), Some(70000), FALSE, FALSE)>>

ComparisonBodies ==
  {Comparison(None, 80000, <<>>, <<>>),
   Comparison(Some(90000), 80000, ExampleFiles, <<"new.ts">>)}

BodiesOf(tool) ==
  CASE tool = "codecov_get_coverage_totals" -> TotalsBodies
    [] tool = "codecov_get_file_coverage" -> FileBodies
    [] tool = "codecov_get_coverage_tree" -> TreeBodies
    [] tool = "codecov_list_repositories" -> Paginated(SomeRepos)
    [] tool = "codecov_get_repository" -> RepositoryBodies
    [] tool = "codecov_list_commits" -> Paginated(SomeCommits)
    [] tool = "codecov_list_pulls" -> Paginated(SomePulls)
    [] tool = "codecov_compare_coverage" -> ComparisonBodies

(***************************************************************************)
(* The state machine                                                       *)
(***************************************************************************)
Tokens == {None, Some(""), Some("tok")}

\* new Map(), Map.prototype.set and Map.prototype.delete
EmptyMap == [k \in {} |-> 0]
MapSet(map, key, value) == [k \in DOMAIN map \cup {key} |-> IF k = key THEN value ELSE map[k]]
MapDelete(map, key) == [k \in DOMAIN map \ {key} |-> map[k]]

Init ==
  /\ proc = "boot"
  /\ token \in Tokens
  /\ clientInstance = None
  /\ constructed = 0
  /\ inv = [i \in Invs |-> IdleInv]
  /\ transports = EmptyMap
  /\ connections = <<>>
  /\ replies = <<>>
  /\ glInput = <<>>
  /\ glOutput = None

\* a process that is already serving, with its credential
InitServing ==
  /\ proc = "serving"
  /\ token = Some("tok")
  /\ clientInstance = None
  /\ constructed = 0
  /\ inv = [i \in Invs |-> IdleInv]
  /\ transports = EmptyMap
  /\ connections = <<>>
  /\ replies = <<>>

\* index.ts main: exit(1) without the credential, else create the server,
\* register the tools and connect the transport
Main ==
  /\ proc = "boot"
  /\ proc' = IF ~TruthyStr(token) THEN "exited" ELSE "serving"
  /\ UNCHANGED <<token, clientInstance, constructed, inv, glInput, glOutput, transports,
               connections, replies>>

\* register*Tools(server) called by a host that does not go through main
RegisterTools ==
  /\ proc = "boot"
  /\ proc' = "hosted"
  /\ UNCHANGED <<token, clientInstance, constructed, inv, glInput, glOutput, transports,
               connections, replies>>

Invoke(i, tool, args) ==
  /\ proc \in {"serving", "hosted"}
  /\ inv[i].pc = "idle"
  /\ LET h == HandlerStart(tool, ParseArgs(tool, args), clientInstance, token)
     IN  /\ clientInstance' = h.instance
         /\ constructed' = constructed + (IF h.built THEN 1 ELSE 0)
         /\ inv' = [inv EXCEPT ![i] =
                      [h.inv EXCEPT !.given = args,
                                    !.client = IF h.obtained THEN Some(constructed')
                                               ELSE None]]
  /\ UNCHANGED <<proc, token, glInput, glOutput, transports,
               connections, replies>>

codecov_get_coverage_totals(i) ==
  \E args \in ArgsOf("codecov_get_coverage_totals") : Invoke(i, "codecov_get_coverage_totals", args)

codecov_get_file_coverage(i) ==
  \E args \in ArgsOf("codecov_get_file_coverage") : Invoke(i, "codecov_get_file_coverage", args)

codecov_get_coverage_tree(i) ==
  \E args \in ArgsOf("codecov_get_coverage_tree") : Invoke(i, "codecov_get_coverage_tree", args)

codecov_list_repositories(i) ==
  \E args \in ArgsOf("codecov_list_repositories") : Invoke(i, "codecov_list_repositories", args)

codecov_get_repository(i) ==
  \E args \in ArgsOf("codecov_get_repository") : Invoke(i, "codecov_get_repository", args)

codecov_list_commits(i) ==
  \E args \in ArgsOf("codecov_list_commits") : Invoke(i, "codecov_list_commits", args)

codecov_list_pulls(i) ==
  \E args \in ArgsOf("codecov_list_pulls") : Invoke(i, "codecov_list_pulls", args)

codecov_compare_coverage(i) ==
  \E args \in ArgsOf("codecov_compare_coverage") : Invoke(i, "codecov_compare_coverage", args)

\* a client that keeps the last response in a field of its own: every
\* invocation of the same tool waiting at that moment resumes with it
SettleShared(i, outcome) ==
  /\ inv[i].pc = "awaiting"
  /\ LET r == HandlerResume(inv[i].tool, outcome)
     IN  inv' = [j \in Invs |->
                  IF inv[j].pc = "awaiting" /\ inv[j].tool = inv[i].tool
                  THEN [inv[j] EXCEPT !.pc = "done", !.outcome = outcome,
                                      !.results = @ \o r.results,
                                      !.caught = r.caught,
                                      !.escaped = r.escaped]
                  ELSE inv[j]]
  /\ UNCHANGED <<proc, token, clientInstance, constructed, glInput, glOutput, transports,
               connections, replies>>

\* the request of invocation i settles and its handler runs to its return
Settle(i, outcome) ==
  /\ inv[i].pc = "awaiting"
  /\ LET r == HandlerResume(inv[i].tool, outcome)
     IN  inv' = [inv EXCEPT ![i].pc = "done", ![i].outcome = outcome,
                            ![i].results = @ \o r.results,
                            ![i].caught = r.caught,
                            ![i].escaped = r.escaped]
  /\ UNCHANGED <<proc, token, clientInstance, constructed, glInput, glOutput, transports,
               connections, replies>>

\* the backend answers 2xx
HttpOk(i) ==
  /\ inv[i].pc = "awaiting"
  /\ \E body \in BodiesOf(inv[i].tool) : Settle(i, OkOutcome(Some(body)))

\* the backend answers 2xx with the empty object
HttpOkEmpty(i) == Settle(i, OkOutcome(None))

\* the backend answers with an error status
HttpError(i) == \E error \in HttpErrors : Settle(i, FailOutcome(error))

\* the request fails without a response
NetworkError(i) == \E error \in NetworkErrors : Settle(i, FailOutcome(error))

\* the host has taken the result; the next call can come
Return(i) ==
  /\ inv[i].pc = "done"
  /\ inv' = [inv EXCEPT ![i] = IdleInv]
  /\ UNCHANGED <<proc, token, clientInstance, constructed, glInput, glOutput, transports,
               connections, replies>>

\* one call at a time, each with the full variety of arguments and answers
Next ==
  \/ Main
  \/ RegisterTools
  \/ codecov_get_coverage_totals(1)
  \/ codecov_get_file_coverage(1)
  \/ codecov_get_coverage_tree(1)
  \/ codecov_list_repositories(1)
  \/ codecov_get_repository(1)
  \/ codecov_list_commits(1)
  \/ codecov_list_pulls(1)
  \/ codecov_compare_coverage(1)
  \/ HttpOk(1)
  \/ HttpOkEmpty(1)
  \/ HttpError(1)
  \/ NetworkError(1)
  \/ Return(1)

Spec == Init /\ [][Next]_vars

(***************************************************************************)
(* Specification of groupLines alone: the input is any sequence of line    *)
(* numbers, the one action applies the function.                           *)
(***************************************************************************)
InitGroup ==
  /\ InitServing
  /\ glInput \in SeqsUpTo(LineNos, MaxLen)
  /\ glOutput = None

GroupLines ==
  /\ glOutput = None
  /\ glOutput' = Some(groupLines(glInput))
  /\ UNCHANGED <<proc, token, clientInstance, constructed, inv, glInput, transports,
               connections, replies>>

NextGroup == GroupLines

SpecGroup == InitGroup /\ [][NextGroup]_vars

(***************************************************************************)
(* Specification of codecov_compare_coverage with a variety of comparison  *)
(* responses: every short list of files of the kinds below, long lists     *)
(* that pass FILES_LIMIT, every number of untracked files up to            *)
(* MaxUntracked, and totals with and without a base.                       *)
(***************************************************************************)
\* base and head percentages, has_diff, change_summary present
FileKinds ==
  <<<<Some(50000), Some(50004), TRUE, FALSE>>,
    <<Some(50000), Some(50001), TRUE, FALSE>>,
    <<Some(50000), Some(40000), TRUE, TRUE>>,
    <<None, Some(60000), FALSE, TRUE>>,
    <<Some(50000), Some(49996), FALSE, TRUE>>,
    <<Some(50000), Some(95000), TRUE, FALSE>>,
    <<Some(50000), None, FALSE, FALSE>>,
    <<Some(50000), Some(50000), TRUE, FALSE>>,
    <<Some(90000), Some(80000), FALSE, FALSE>>>>

FileName(k) == "f" \o ToString(k)

\* the files of the given kinds, named f1, f2, ... by position
FilesOfKinds(kinds) ==
  [k \in 1..Len(kinds) |->
     File(FileName(k), FileKinds[kinds[k]][1], FileKinds[kinds[k]][2],
          FileKinds[kinds[k]][3], FileKinds[kinds[k]][4])]

\* a list of n files whose kinds go round LongCycle in steps; one kind in
\* eleven fails the filter
LongCycle == <<1, 2, 3, 4, 5, 6, 8, 1, 2, 3, 7>>
CycleKinds(n, step) == [k \in 1..n |-> LongCycle[((k * step) % Len(LongCycle)) + 1]]

UntrackedPaths(n) == [k \in 1..n |-> "u" \o ToString(k)]

RankingBodies ==
  {Comparison(Some(90000), 80000, FilesOfKinds(kinds), <<>>) :
   kinds \in SeqsUpTo(1..Len(FileKinds), MaxFiles)}

LongBodies ==
  {Comparison(Some(90000), 80000, FilesOfKinds(CycleKinds(n, step)), <<>>) :
   n \in 0..(FILES_LIMIT + MaxExtra), step \in {1, 2, 4}}

UntrackedBodies ==
  {Comparison(Some(90000), 80000, ExampleFiles, UntrackedPaths(n)) : n \in 0..MaxUntracked}

TotalsOnlyBodies ==
  {Comparison(base, head, <<>>, <<>>) :
   base \in {None, Some(80000), Some(80004), Some(90000)}, head \in {79996, 80000, 80004}}

RichComparisonBodies == RankingBodies \cup LongBodies \cup UntrackedBodies \cup TotalsOnlyBodies

InitCompare ==
  /\ InitServing
  /\ glInput = <<>>
  /\ glOutput = None

\* the backend answers the comparison request
HttpOkComparison(i) ==
  /\ inv[i].pc = "awaiting"
  /\ \E body \in RichComparisonBodies : Settle(i, OkOutcome(Some(body)))

NextCompare ==
  \/ codecov_compare_coverage(1)
  \/ HttpOkComparison(1)
  \/ Return(1)

SpecCompare == InitCompare /\ [][NextCompare]_vars

(***************************************************************************)
(* Specification of concurrent invocations.  The event loop runs one       *)
(* handler at a time up to its await, so any number of invocations can be  *)
(* waiting for their requests at once, and the requests settle in any      *)
(* order.  Two tools with a few arguments and answers each keep the        *)
(* interleavings of NumInv invocations countable.                          *)
(***************************************************************************)
ConcTools == {"codecov_get_coverage_totals", "codecov_list_commits"}

ConcArgsOf(tool) ==
  IF tool = "codecov_get_coverage_totals"
  THEN {Base, [Base EXCEPT !.service = Some("gitlab"), !.sha = Some("abc123")]}
  ELSE {[Base EXCEPT !.page_size = Some(DEFAULT_PAGE_SIZE)],
        [Base EXCEPT !.page_size = Some(50), !.branch = Some("main")]}

ConcBodiesOf(tool) ==
  IF tool = "codecov_get_coverage_totals"
  THEN TotalsBodies
  ELSE {[count |-> 57, next |-> Some("https://api.codecov.io/api/v2/page"), previous |-> None,
         results |-> r, total_pages |-> 3] : r \in SomeCommits \ {<<>>}}

ConcErrors ==
  {e \in HttpErrors : /\ Get(e.response).status \in {404, 500}
                      /\ Get(e.response).data.detail = Some("Not found.")
                      /\ Get(e.response).data.message = None}
    \cup {e \in NetworkErrors : e.message = "Network Error"}

ConcOutcomes(tool) ==
  {OkOutcome(Some(body)) : body \in ConcBodiesOf(tool)}
    \cup {OkOutcome(None)} \cup {FailOutcome(error) : error \in ConcErrors}

\* a host that has registered the tools, with or without the credential
InitConc ==
  /\ proc = "hosted"
  /\ token \in Tokens
  /\ clientInstance = None
  /\ constructed = 0
  /\ inv = [i \in Invs |-> IdleInv]
  /\ transports = EmptyMap
  /\ connections = <<>>
  /\ replies = <<>>
  /\ glInput = <<>>
  /\ glOutput = None

\* a call arrives while others may be waiting
ConcInvoke(i) ==
  \E tool \in ConcTools : \E args \in ConcArgsOf(tool) : Invoke(i, tool, args)

\* the request of one of the waiting invocations settles
ConcSettle(i) ==
  /\ inv[i].pc = "awaiting"
  /\ \E outcome \in ConcOutcomes(inv[i].tool) : Settle(i, outcome)

NextConc ==
  \E i \in Invs :
    \/ ConcInvoke(i)
    \/ ConcSettle(i)
    \/ Return(i)

SpecConc == InitConc /\ [][NextConc]_vars

(***************************************************************************)
(* Specification of the requests: every tool with every combination of     *)
(* its optional arguments absent, empty and present, and a few answers.    *)
(***************************************************************************)
Tools ==
  {"codecov_get_coverage_totals", "codecov_get_file_coverage", "codecov_get_coverage_tree",
   "codecov_list_repositories", "codecov_get_repository", "codecov_list_commits",
   "codecov_list_pulls", "codecov_compare_coverage"}

\* serviceSchema: one of VALID_SERVICES, or omitted
AllServices == {None} \cup {Some(sv) : sv \in VALID_SERVICES}

\* an optional string: omitted, empty, or one of vals
OptStr(vals) == {None, Some("")} \cup {Some(v) : v \in vals}

PageSizes == {None, Some(1), Some(DEFAULT_PAGE_SIZE), Some(50)}
Pages == {None, Some(2)}
NameLists == {None, Some(<<>>), Some(<<"">>), Some(<<"widgets">>), Some(<<"widgets", "gears">>)}

RichArgsOf(tool) ==
  CASE tool = "codecov_get_coverage_totals" ->
         {[Base EXCEPT !.service = sv, !.sha = sh, !.branch = br] :
          sv \in AllServices, sh \in OptStr({"abc123"}), br \in OptStr({"main"})}
    [] tool = "codecov_get_file_coverage" ->
         {[Base EXCEPT !.service = sv, !.sha = sh, !.branch = br, !.path = Some(p)] :
          sv \in AllServices, sh \in OptStr({"abc123"}), br \in OptStr({"main"}),
          p \in {GoodPath, BadPath}}
    [] tool = "codecov_get_coverage_tree" ->
         {[Base EXCEPT !.service = sv, !.sha = sh, !.branch = br, !.path = pt, !.depth = dp] :
          sv \in AllServices, sh \in {None, Some("abc123")}, br \in {None, Some("main")},
          pt \in OptStr({"src"}), dp \in {None, Some(2)}}
    [] tool = "codecov_list_repositories" ->
         {[Base EXCEPT !.service = sv, !.page_size = ps, !.page = pg, !.active = ac, !.names = nm] :
          sv \in AllServices, ps \in PageSizes, pg \in Pages,
          ac \in {None, Some(FALSE), Some(TRUE)}, nm \in NameLists}
    [] tool = "codecov_get_repository" -> {[Base EXCEPT !.service = sv] : sv \in AllServices}
    [] tool = "codecov_list_commits" ->
         {[Base EXCEPT !.service = sv, !.page_size = ps, !.page = pg, !.branch = br] :
          sv \in AllServices, ps \in PageSizes, pg \in Pages, br \in OptStr({"main"})}
    [] tool = "codecov_list_pulls" ->
         {[Base EXCEPT !.service = sv, !.page_size = ps, !.page = pg, !.state = st] :
          sv \in AllServices, ps \in PageSizes, pg \in Pages,
          st \in {None, Some("open"), Some("merged")}}
    [] tool = "codecov_compare_coverage" ->
         {[Base EXCEPT !.service = sv, !.base = b, !.head = h, !.pullid = pl] :
          sv \in AllServices, b \in OptStr({"main"}), h \in OptStr({"feature", "main"}),
          pl \in {None, Some(7)}}

InitArgs ==
  /\ InitServing
  /\ glInput = <<>>
  /\ glOutput = None

\* a caller invokes one of the tools
Call(i) == \E tool \in Tools : \E args \in RichArgsOf(tool) : Invoke(i, tool, args)

\* the backend answers, or fails to
Answer(i) ==
  /\ inv[i].pc = "awaiting"
  /\ \E outcome \in {OkOutcome(None)} \cup {FailOutcome(error) : error \in ConcErrors} :
       Settle(i, outcome)

NextArgs ==
  \/ Call(1)
  \/ Answer(1)
  \/ Return(1)

SpecArgs == InitArgs /\ [][NextArgs]_vars

(***************************************************************************)
(* Specification of two comparisons side by side: invocations 1 and 2 are  *)
(* calls of codecov_compare_coverage with any two sets of arguments.       *)
(***************************************************************************)
PairArgs ==
  {[Base EXCEPT !.base = b, !.head = h, !.pullid = pl] :
   b \in OptStr({"main"}), h \in OptStr({"feature", "main"}), pl \in {None, Some(7), Some(8)}}

InitPair ==
  /\ InitServing
  /\ glInput = <<>>
  /\ glOutput = None

CallCompare(i) == \E args \in PairArgs : Invoke(i, "codecov_compare_coverage", args)

NextPair ==
  \E i \in {1, 2} :
    \/ CallCompare(i)
    \/ Answer(i)
    \/ Return(i)

SpecPair == InitPair /\ [][NextPair]_vars

(***************************************************************************)
(* Specification of codecov_get_coverage_tree with every tree of up to     *)
(* MaxTreeDepth levels below the roots: a node is a leaf without children  *)
(* or with an empty list of them, or has one or two children.              *)
(***************************************************************************)
RECURSIVE TreesOf(_, _)
TreesOf(depth, name) ==
  LET leaves == {Node(name, Some(50000), None), Node(name, None, Some(<<>>))}
      below(nm) == TreesOf(depth - 1, nm)
  IN  IF depth = 0 THEN leaves
      ELSE leaves
             \cup {Node(name, Some(85714), Some(<<a>>)) : a \in below(name \o "a")}
             \cup {Node(name, Some(85714), Some(<<a, b>>)) :
                   a \in below(name \o "a"), b \in below(name \o "b")}

RichTreeBodies ==
  {<<>>}
    \cup {<<t>> : t \in TreesOf(MaxTreeDepth, "r")}
    \cup {<<t, u>> : t \in TreesOf(MaxTreeDepth - 1, "r"), u \in TreesOf(MaxTreeDepth - 1, "s")}

InitTree ==
  /\ InitServing
  /\ glInput = <<>>
  /\ glOutput = None

\* the tree of the whole repository is asked for
CallTree(i) == Invoke(i, "codecov_get_coverage_tree", Base)

\* the backend answers the tree request
HttpOkTree(i) ==
  /\ inv[i].pc = "awaiting"
  /\ \E body \in RichTreeBodies : Settle(i, OkOutcome(Some(body)))

NextTree ==
  \/ CallTree(1)
  \/ HttpOkTree(1)
  \/ Return(1)

SpecTree == InitTree /\ [][NextTree]_vars

(***************************************************************************)
(* Specification of the line classification alone: the response is any     *)
(* file report whose k-th entry is line k, with any hit count and flag;    *)
(* the one action runs the loop and builds the summary.                    *)
(***************************************************************************)
HitCounts == {None, Some(0), Some(1), Some(3)}
PartialFlags == {None, Some(FALSE), Some(TRUE)}

LineReports ==
  UNION {{[k \in 1..n |-> Line(k, cov[k], flag[k])] :
            cov \in [1..n -> HitCounts], flag \in [1..n -> PartialFlags]} : n \in 0..MaxEntries}

InitClass ==
  /\ InitServing
  /\ glInput \in LineReports
  /\ glOutput = None

ClassifyLines ==
  /\ glOutput = None
  /\ LET body == [name |-> "src/a b.ts", totals |-> Totals(85714, 7, 6),
                  commit_sha |-> "abc123", line_coverage |-> glInput]
     IN  glOutput' = Some([missedLines |-> ClassLines(glInput, "missed"),
                           partialLines |-> ClassLines(glInput, "partial"),
                           coveredLines |-> ClassLines(glInput, "covered"),
                           summary |-> Get(SummarizeFile(Some(body)).text.json)])
  /\ UNCHANGED <<proc, token, clientInstance, constructed, inv, glInput, transports,
               connections, replies>>

NextClass == ClassifyLines

SpecClass == InitClass /\ [][NextClass]_vars

(***************************************************************************)
(* Specification of the file path: codecov_get_file_coverage is called     *)
(* with any path of the schema, a non-empty string, over a few characters  *)
(* that are kept, percent-encoded or rejected.                             *)
(***************************************************************************)
PathChars == {"F", "2", "/", " ", "%", EAcute, LoneSurrogate}

PathInputs == UNION {[1..n -> PathChars] : n \in 1..MaxPathLen}

InitPath ==
  /\ InitServing
  /\ glInput = <<>>
  /\ glOutput = None

CallFile(i) ==
  \E a \in WithService(Base), path \in PathInputs :
    Invoke(i, "codecov_get_file_coverage", [a EXCEPT !.path = Some(path)])

NextPath ==
  \/ CallFile(1)
  \/ Answer(1)
  \/ Return(1)

SpecPath == InitPath /\ [][NextPath]_vars

(***************************************************************************)
(* Specification of the HTTP transport (index.ts runHttp): SSE connections *)
(* are opened on GET /sse and closed by their peers in any order, and      *)
(* messages are posted to /messages.  connections lists the connections    *)
(* in the order they were made, each with the sessionId its handler used   *)
(* and whether it is still open; a transport is named by the number of     *)
(* its connection.  replies holds the answer to the last POST.             *)
(***************************************************************************)
\* req.query.sessionId: absent, empty, or one of two values callers share
SessionQueries == {None, Some(""), Some("s1"), Some("s2")}

\* crypto.randomUUID(): the n-th connection draws a value no one else has
randomUUID(n) == "uuid-" \o ToString(n)

InitHttp ==
  /\ InitServing
  /\ glInput = <<>>
  /\ glOutput = None

\* app.get("/sse", ...)
GetSse(query) ==
  /\ proc = "serving"
  /\ Len(connections) < MaxConns
  /\ LET sessionId == IF TruthyStr(query) THEN Get(query)
                      ELSE randomUUID(Len(connections) + 1)
         transport == Len(connections) + 1
     IN  /\ transports' = MapSet(transports, sessionId, transport)
         /\ connections' = Append(connections, [sessionId |-> sessionId, open |-> TRUE])
  /\ UNCHANGED <<proc, token, clientInstance, constructed, inv, glInput, glOutput, replies>>

\* res.on("close", ...) of connection c
SseClose(c) ==
  /\ c \in 1..Len(connections)
  /\ connections[c].open
  /\ transports' = MapDelete(transports, connections[c].sessionId)
  /\ connections' = [connections EXCEPT ![c].open = FALSE]
  /\ UNCHANGED <<proc, token, clientInstance, constructed, inv, glInput, glOutput, replies>>

\* app.post("/messages", ...): the status it answers with, or the transport
\* it hands the message to
PostMessages(query) ==
  /\ proc = "serving"
  /\ replies' =
       <<IF ~TruthyStr(query) THEN [query |-> query, status |-> Some(400), transport |-> None]
         ELSE IF Get(query) \notin DOMAIN transports
              THEN [query |-> query, status |-> Some(404), transport |-> None]
              ELSE [query |-> query, status |-> None,
                    transport |-> Some(transports[Get(query)])]>>
  /\ UNCHANGED <<proc, token, clientInstance, constructed, inv, glInput, glOutput,
                 transports, connections>>

NextHttp ==
  \/ \E query \in SessionQueries : GetSse(query)
  \/ \E c \in 1..MaxConns : SseClose(c)
  \/ \E query \in SessionQueries : PostMessages(query)

SpecHttp == InitHttp /\ [][NextHttp]_vars

(***************************************************************************)
(* Specification of groupLines on any numbers: the input is any sequence   *)
(* over a few integers, negative ones and zero included, in any order and  *)
(* with repetitions.                                                       *)
(***************************************************************************)
AnyNos == {-2, -1, 0, 1, 2, 3, 9, 10, 11}

InitAny ==
  /\ InitServing
  /\ glInput \in SeqsUpTo(AnyNos, MaxAnyLen)
  /\ glOutput = None

NextAny == GroupLines

SpecAny == InitAny /\ [][NextAny]_vars

(***************************************************************************)
(* Specification of a host whose environment changes: the tools are        *)
(* registered by a host that sets, empties or removes CODECOV_API_TOKEN    *)
(* between calls; invocations 1 and 2 may overlap.                         *)
(***************************************************************************)
\* process.env.CODECOV_API_TOKEN is assigned or deleted by the host
SetEnv(value) ==
  /\ proc = "hosted"
  /\ token # value
  /\ token' = value
  /\ UNCHANGED <<proc, clientInstance, constructed, inv, glInput, glOutput,
                 transports, connections, replies>>

NextEnv ==
  \/ \E value \in Tokens : SetEnv(value)
  \/ \E i \in {1, 2} :
       \/ ConcInvoke(i)
       \/ ConcSettle(i)
       \/ Return(i)

SpecEnv == InitConc /\ [][NextEnv]_vars

(***************************************************************************)
(* Reading a rendered range list back                                      *)
(***************************************************************************)
\* positions of the first character of each ", " separator
SepAt(s, k) == k < Len(s) /\ s[k] = "," /\ s[k + 1] = " "

RECURSIVE SplitRanges(_, _)
SplitRanges(s, cur) ==
  IF Len(s) = 0 THEN <<cur>>
  ELSE IF SepAt(s, 1) THEN <<cur>> \o SplitRanges(SubSeq(s, 3, Len(s)), <<>>)
  ELSE SplitRanges(Tail(s), Append(cur, s[1]))

DashPos(s) == {k \in 1..Len(s) : s[k] = "-"}

\* a piece is "n" or "a-b" with a < b; anything else is malformed
PieceOk(p) ==
  \/ IsNatStr(p)
  \/ /\ Cardinality(DashPos(p)) = 1
     /\ LET d == CHOOSE k \in DashPos(p) : TRUE
        IN  /\ IsNatStr(SubSeq(p, 1, d - 1))
            /\ IsNatStr(SubSeq(p, d + 1, Len(p)))
            /\ StrToNat(SubSeq(p, 1, d - 1), 0) < StrToNat(SubSeq(p, d + 1, Len(p)), 0)

PieceRange(p) ==
  IF IsNatStr(p) THEN <<StrToNat(p, 0), StrToNat(p, 0)>>
  ELSE LET d == CHOOSE k \in DashPos(p) : TRUE
       IN  <<StrToNat(SubSeq(p, 1, d - 1), 0), StrToNat(SubSeq(p, d + 1, Len(p)), 0)>>

RECURSIVE Expand(_)
Expand(rs) ==
  IF Len(rs) = 0 THEN <<>>
  ELSE [k \in 1..(rs[1][2] - rs[1][1] + 1) |-> rs[1][1] + k - 1] \o Expand(Tail(rs))

Ascending(ls) == \A k \in 1..(Len(ls) - 1) : ls[k] < ls[k + 1]

\* C1: for an ascending sequence of distinct line numbers the output is
\* "none" when the sequence is empty and otherwise a ", "-joined list of
\* pieces "n" or "a-b" (a < b) that expands to exactly the input, in
\* ascending order, with a gap of at least one number between neighbouring
\* pieces (so no two could be merged and the list is minimal); and
\* [3,4,5,7] gives "3-5, 7".
C1_RangeCompression ==
  (IsSome(glOutput) /\ Ascending(glInput)) =>
    LET out == Get(glOutput)
        pieces == SplitRanges(out, <<>>)
        rs == [k \in 1..Len(pieces) |-> PieceRange(pieces[k])]
    IN  /\ (Len(glInput) = 0) => out = <<"n", "o", "n", "e">>
        /\ (Len(glInput) > 0) =>
             /\ \A k \in 1..Len(pieces) : PieceOk(pieces[k])
             /\ Expand(rs) = glInput
             /\ \A k \in 1..(Len(rs) - 1) : rs[k][2] + 1 < rs[k + 1][1]
        /\ (glInput = <<3, 4, 5, 7>>) => out = <<"3", "-", "5", ",", " ", "7">>

C1_Witness == glInput = <<3, 4, 5, 7>> /\ IsSome(glOutput)

(***************************************************************************)
(* The comparison summary                                                  *)
(***************************************************************************)
Compared(i) ==
  /\ inv[i].pc = "done"
  /\ inv[i].tool = "codecov_compare_coverage"
  /\ inv[i].outcome.kind = "ok"
  /\ IsSome(inv[i].outcome.body)
  /\ ~inv[i].results[1].isError

Response(i) == Get(inv[i].outcome.body)
Summary(i) == Get(inv[i].results[1].content[1].text.json)
Appended(i) == inv[i].results[1].content[1].text.str

NA == <<"N", "/", "A">>

\* the percentage of one side, <<>> when the side is null
Side(totals) == IF IsSome(totals) THEN Get(totals).coverage ELSE None

\* head - base of a file entry, <<>> when a side is missing
Delta(f) ==
  IF IsSome(Side(f.totals.base)) /\ IsSome(Side(f.totals.head))
  THEN Some(Get(Side(f.totals.head)) - Get(Side(f.totals.base)))
  ELSE None

DeltaOrZero(f) == IF IsSome(Delta(f)) THEN Get(Delta(f)) ELSE 0

\* str is a percentage with two decimals that is d rounded, signed "+"
\* exactly when d is not negative
RendersDelta(str, d) ==
  /\ Len(str) >= 5
  /\ str[Len(str)] = "%"
  /\ str[Len(str) - 3] = "."
  /\ IsSome(parseFloat(str))
  /\ Abs(Abs(Get(parseFloat(str))) - Abs(d)) <= 5
  /\ (str[1] = "-") <=> (d < 0)
  /\ (str[1] = "+") <=> (d >= 0)

FileNamed(i, name) == CHOOSE f \in {Response(i).files[k] : k \in 1..Len(Response(i).files)} : f.name = name

Passing(i) ==
  {k \in 1..Len(Response(i).files) :
     Response(i).files[k].has_diff \/ Response(i).files[k].change_summary # None}

\* C3: changed_files has only files with a diff or a change summary, and
\* is in ascending order of head - base, a file without one counting as 0.
C3_OrderedByDelta ==
  \A i \in Invs : Compared(i) =>
    LET shown == Summary(i).changed_files
    IN  /\ \A k \in 1..Len(shown) :
             \E j \in Passing(i) : Response(i).files[j].name = shown[k].name
        /\ \A k \in 1..(Len(shown) - 1) :
             DeltaOrZero(FileNamed(i, shown[k].name)) <= DeltaOrZero(FileNamed(i, shown[k + 1].name))

\* d rounded to hundredths, in hundredths
Hundredths(d) == IF d < 0 THEN 0 - ((5 - d) \div 10) ELSE (d + 5) \div 10

\* the place of file k among the passing files in ascending order of the
\* rounded change, files with equal values in the order of the response
Place(i, k) ==
  LET key(j) == Hundredths(DeltaOrZero(Response(i).files[j]))
  IN  1 + Cardinality({j \in Passing(i) : key(j) < key(k) \/ (key(j) = key(k) /\ j < k)})

\* C4: files_changed is the number of files with a diff or a change
\* summary, and changed_files is the first min(20, files_changed) of them
\* in the sorted order; with at most 20 such files the two agree.
C4_FilesChangedCount ==
  \A i \in Invs : Compared(i) =>
    LET shown == Summary(i).changed_files
        n == Cardinality(Passing(i))
    IN  /\ Summary(i).files_changed = n
        /\ Len(shown) = (IF n < 20 THEN n ELSE 20)
        /\ \A k \in Passing(i) :
             Place(i, k) <= 20 => shown[Place(i, k)].name = Response(i).files[k].name
        /\ n <= 20 => Summary(i).files_changed = Len(shown)

\* more than 20 files pass the filter and some file does not
C4_Witness ==
  \E i \in Invs :
    /\ Compared(i)
    /\ Cardinality(Passing(i)) > 20
    /\ Len(Response(i).files) > Cardinality(Passing(i))
    /\ Len(Summary(i).changed_files) = 20

Min(a, b) == IF a < b THEN a ELSE b

\* C5: the warning is appended exactly when there are untracked files; it
\* lists the first min(10, n) paths in the order of the response, and ends
\* with "... and N more", N = n - 10, exactly when n > 10; untracked_files
\* is n.
C5_UntrackedWarning ==
  \A i \in Invs : Compared(i) =>
    LET untracked == Response(i).untracked
        n == Len(untracked)
        m == Min(10, n)
        str == Appended(i)
    IN  /\ Summary(i).untracked_files = n
        /\ (str # <<>>) <=> (n > 0)
        /\ n > 0 =>
             /\ Len(str) >= 2 * m
             /\ str[1] = WarningHeader
             /\ \A k \in 1..m : str[2 * k] = untracked[k]
             /\ \A k \in 1..(m - 1) : str[2 * k + 1] = "\n"
             /\ SubSeq(str, 2 * m + 1, Len(str)) =
                  (IF n > 10 THEN <<"\n... and ">> \o IntToStr(n - 10) \o <<" more">> ELSE <<>>)
        /\ n = 15 => SubSeq(str, 21, Len(str)) = <<"\n... and ", "5", " more">>

\* fifteen untracked files
C5_Witness ==
  \E i \in Invs :
    /\ Compared(i)
    /\ Len(Response(i).untracked) = 15
    /\ Len(Appended(i)) = 23

(***************************************************************************)
(* Error classification and the failure envelope                           *)
(***************************************************************************)
Done(i) == inv[i].pc = "done"
Result(i) == inv[i].results[1]
ResultText(i) == Result(i).content[1].text

Failed(i) == Done(i) /\ inv[i].outcome.kind = "fail"
FailStatus(i) == ErrorStatus(inv[i].outcome.error)
FailData(i) == Get(inv[i].outcome.error.response).data

FixedMessage(status) ==
  CASE status = 401 -> MsgAuth
    [] status = 403 -> MsgDenied
    [] status = 404 -> MsgNotFound
    [] status = 429 -> MsgRateLimit

\* C6: every failed request is classified as exactly one CodecovApiError:
\* the fixed message for 401, 403, 404 and 429 whatever the backend's
\* detail; for any other status the backend's detail, else its message
\* (an empty text counting as absent), else the transport's message; and
\* the transport's message when there was no response.
C6_ErrorClassification ==
  \A i \in Invs : Failed(i) =>
    /\ Len(inv[i].caught) = 1
    /\ inv[i].caught[1].name = "CodecovApiError"
    /\ LET message == inv[i].caught[1].message
           error == inv[i].outcome.error
       IN  IF ~IsSome(FailStatus(i)) THEN message = error.message
           ELSE IF Get(FailStatus(i)) \in {401, 403, 404, 429}
                THEN message = FixedMessage(Get(FailStatus(i)))
           ELSE IF FailData(i).detail \notin {None, Some("")}
                THEN message = Get(FailData(i).detail)
           ELSE IF FailData(i).message \notin {None, Some("")}
                THEN message = Get(FailData(i).message)
           ELSE message = error.message

\* a 500 whose body has no detail but a message, next to the transport's text
C6_Witness ==
  \E i \in Invs :
    /\ Failed(i)
    /\ FailStatus(i) = Some(500)
    /\ FailData(i).detail = Some("")
    /\ FailData(i).message = Some("backend says no")
    /\ inv[i].caught[1].message = "backend says no"

\* C7: an invocation has no result before it returns and exactly one when
\* it has returned; nothing leaves the handler; the result is a success
\* text, not flagged, exactly when nothing was thrown, and otherwise the
\* one text "Error: <message>" of the thrown error, flagged isError.
C7_FailureEnvelope ==
  \A i \in Invs :
    /\ inv[i].escaped = <<>>
    /\ ~Done(i) => inv[i].results = <<>>
    /\ Done(i) =>
         /\ Len(inv[i].results) = 1
         /\ Len(Result(i).content) = 1
         /\ Result(i).isError <=> Len(inv[i].caught) = 1
         /\ Result(i).isError =>
              /\ ResultText(i).json = <<>>
              /\ ResultText(i).str = <<"Error: ", inv[i].caught[1].message>>
         /\ ~Result(i).isError =>
              /\ inv[i].outcome.kind = "ok"
              /\ inv[i].tool = "codecov_get_coverage_tree" \/ ResultText(i).json # <<>>
              /\ ResultText(i).str = <<>> \/ ResultText(i).str[1] # "Error: "

\* the summariser threw on a 2xx body and the caller got an error result
C7_Witness ==
  \E i \in Invs :
    /\ Done(i)
    /\ inv[i].outcome.kind = "ok"
    /\ inv[i].caught # <<>>
    /\ inv[i].caught[1].name = "TypeError"
    /\ Result(i).isError

\* C8: a 404 answer to codecov_get_file_coverage gives an error result with
\* the not-found message, a 429 answer one with the rate-limit message.
C8_FileCoverageErrors ==
  \A i \in Invs :
    (Failed(i) /\ inv[i].tool = "codecov_get_file_coverage") =>
      /\ FailStatus(i) = Some(404) =>
           Result(i).isError /\ ResultText(i).str = <<"Error: ", MsgNotFound>>
      /\ FailStatus(i) = Some(429) =>
           Result(i).isError /\ ResultText(i).str = <<"Error: ", MsgRateLimit>>

\* a 404 that came with a backend detail of its own
C8_Witness ==
  \E i \in Invs :
    /\ Failed(i)
    /\ inv[i].tool = "codecov_get_file_coverage"
    /\ FailStatus(i) = Some(404)
    /\ FailData(i).detail = Some("Not found.")
    /\ Result(i).isError

(***************************************************************************)
(* Pagination                                                              *)
(***************************************************************************)
ListTools == {"codecov_list_repositories", "codecov_list_commits", "codecov_list_pulls"}

Listed(i) ==
  /\ Done(i)
  /\ inv[i].tool \in ListTools
  /\ inv[i].outcome.kind = "ok"
  /\ IsSome(inv[i].outcome.body)

\* C9: in the summaries of the three list tools has_next tells whether the
\* response has a next cursor, has_previous whether it has a previous one,
\* and total_pages and total_count are the backend's values, whatever the
\* number of items in the page.
C9_PaginationEnvelope ==
  \A i \in Invs : Listed(i) =>
    LET response == Get(inv[i].outcome.body)
        summary == Get(ResultText(i).json)
    IN  /\ ~Result(i).isError
        /\ summary.page_info.has_next <=> IsSome(response.next)
        /\ summary.page_info.has_previous <=> IsSome(response.previous)
        /\ summary.page_info.total_pages = response.total_pages
        /\ summary.total_count = response.count

\* an empty page of a list of 57 with a next cursor and no previous one
C9_Witness ==
  \E i \in Invs :
    /\ Listed(i)
    /\ Get(inv[i].outcome.body).count = 57
    /\ Get(inv[i].outcome.body).results = <<>>
    /\ IsSome(Get(inv[i].outcome.body).next)
    /\ ~IsSome(Get(inv[i].outcome.body).previous)
    /\ Get(ResultText(i).json).page_info.has_next

(***************************************************************************)
(* The credential                                                          *)
(***************************************************************************)
\* C10: without a token (unset or empty) main exits, the constructor
\* refuses, no client is ever stored, no invocation sends a request, and
\* every invocation returns an error result.
C10_MissingCredential ==
  /\ \A t \in Tokens : ~TruthyStr(t) => ~NewCodecovClient(t).ok
  /\ ~TruthyStr(token) =>
       /\ proc # "serving"
       /\ clientInstance = None
       /\ \A i \in Invs :
            /\ inv[i].requests = <<>>
            /\ inv[i].pc # "awaiting"
            /\ Done(i) => Result(i).isError /\ inv[i].caught[1].name = "Error"

\* a tool was invoked with the token set to the empty string
C10_Witness ==
  /\ token = Some("")
  /\ \E i \in Invs : Done(i) /\ Result(i).isError /\ inv[i].requests = <<>>

(***************************************************************************)
(* C11: the shared client is built lazily and once                         *)
(***************************************************************************)
\* the invocations that hold a client
Holding == {i \in Invs : IsSome(inv[i].client)}

\* C11: however the first uses interleave, the constructor builds at most
\* one client; no client exists before the first use; and every invocation
\* that obtained a client obtained that one object, the one clientInstance
\* holds, while without a credential nothing is built or obtained
C11_SingleClient ==
  /\ constructed <= 1
  /\ (constructed = 0) <=> (clientInstance = None)
  /\ \A i \in Holding : Get(inv[i].client) = 1 /\ clientInstance # None
  /\ ~TruthyStr(token) => constructed = 0 /\ Holding = {}
  /\ TruthyStr(token) => \A i \in Invs : inv[i].pc # "idle" => i \in Holding

\* two invocations that both made their first use before either request
\* settled share the one client
C11_Witness ==
  /\ constructed = 1
  /\ inv[1].pc = "awaiting" /\ inv[2].pc = "awaiting"
  /\ inv[1].client = Some(1) /\ inv[2].client = Some(1)
  /\ inv[1].tool # inv[2].tool

(***************************************************************************)
(* C12: absent numbers in the summaries                                    *)
(***************************************************************************)
\* invocation i returned the summary of a 2xx body
Summarized(i, tool) ==
  /\ Done(i)
  /\ inv[i].tool = tool
  /\ inv[i].outcome.kind = "ok"
  /\ IsSome(inv[i].outcome.body)
  /\ ~Result(i).isError

\* C12: in every summary a number the response does not have is shown as
\* "N/A": the coverage percentage of codecov_get_coverage_totals,
\* codecov_get_file_coverage, codecov_get_repository and of every listed
\* repository and commit, the base and head percentages of a compared
\* file, and the added and removed lines of a compared file without line
\* stats, which are never shown as 0.
C12_AbsentIsNA ==
  \A i \in Invs :
    /\ Summarized(i, "codecov_get_coverage_totals") =>
         (Response(i).totals.coverage = None => Summary(i).coverage_percentage = NA)
    /\ Summarized(i, "codecov_get_file_coverage") =>
         (Response(i).totals.coverage = None => Summary(i).coverage_percentage = NA)
    /\ Summarized(i, "codecov_get_repository") =>
         (IsSome(Response(i).totals) /\ Side(Response(i).totals) = None
            => Get(Summary(i).coverage).percentage = NA)
    /\ Summarized(i, "codecov_list_repositories") =>
         \A k \in 1..Len(Response(i).results) :
           Side(Response(i).results[k].totals) = None
             => Summary(i).repositories[k].coverage = NA
    /\ Summarized(i, "codecov_list_commits") =>
         \A k \in 1..Len(Response(i).results) :
           Side(Response(i).results[k].totals) = None
             => Summary(i).commits[k].coverage = NA
    /\ Summarized(i, "codecov_compare_coverage") =>
         \A k \in 1..Len(Summary(i).changed_files) :
           LET entry == Summary(i).changed_files[k]
               f == FileNamed(i, entry.name)
           IN  /\ Side(f.totals.base) = None => entry.base_coverage = NA
               /\ Side(f.totals.head) = None => entry.head_coverage = NA
               /\ f.stats = None => entry.lines_added # 0 /\ entry.lines_removed # 0

(***************************************************************************)
(* C13: the query parameters of a request                                  *)
(***************************************************************************)
\* invocation i has sent its request
Sent(i) == Len(inv[i].requests) > 0
Request(i) == inv[i].requests[1]

\* the positions of the query parameter called name in the request of i
ParamAt(i, name) ==
  {k \in 1..Len(Request(i).params) : Request(i).params[k][1] = name}

\* the value of the one parameter called name
ParamValue(i, name) == Request(i).params[CHOOSE k \in ParamAt(i, name) : TRUE][2]

OptionalParams ==
  {"page", "active", "names", "branch", "sha", "path", "depth", "state", "base", "head", "pullid"}

\* the value the caller's argument has as a query parameter
AsParam(name, value) ==
  IF name = "names" THEN Join([k \in 1..Len(value) |-> <<value[k]>>], <<",">>) ELSE value

StrParams == {"branch", "sha", "state", "base", "head"}
NumParams == {"page", "depth", "pullid"}

\* the optional parameters the caller of invocation i supplied: a text
\* that is not empty, a number, a flag, a list with at least one name
Supplied(i) ==
  {name \in StrParams : TruthyStr(inv[i].given[name])}
    \cup {name \in NumParams \cup {"active"} : IsSome(inv[i].given[name])}
    \cup {name \in {"names"} : IsSome(inv[i].given.names) /\ Len(Get(inv[i].given.names)) > 0}
    \cup {name \in {"path"} : inv[i].tool = "codecov_get_coverage_tree" /\ TruthyStr(inv[i].given.path)}

Forwarded(i, name) ==
  /\ Cardinality(ParamAt(i, name)) = 1
  /\ ParamValue(i, name) = AsParam(name, Get(inv[i].given[name]))

SansBaseHead(args) == [args EXCEPT !.base = None, !.head = None]

\* C15: with a pullid, base and head do not count: two comparisons given
\* the same pullid and differing only in base and head send the same
\* request.
C15_PullidOverrides ==
  \A i, j \in Invs :
    /\ Sent(i) /\ Sent(j)
    /\ inv[i].tool = "codecov_compare_coverage"
    /\ inv[j].tool = "codecov_compare_coverage"
    /\ IsSome(inv[i].given.pullid)
    /\ SansBaseHead(inv[i].given) = SansBaseHead(inv[j].given)
    => Request(i) = Request(j)

(***************************************************************************)
(* C16: the service of a request                                           *)
(***************************************************************************)
\* C16: the path of every request of every tool begins with
\* /{service}/{owner}, the service being the caller's when the caller gave
\* one and "github" when not, and always one of github, gitlab, bitbucket.
C16_ServiceSelection ==
  \A i \in Invs : Sent(i) =>
    LET service == IF IsSome(inv[i].given.service) THEN Get(inv[i].given.service)
                   ELSE "github"
    IN  /\ Len(Request(i).path) >= 4
        /\ SubSeq(Request(i).path, 1, 4) = <<"/", service, "/", inv[i].given.owner>>
        /\ Request(i).path[2] \in {"github", "gitlab", "bitbucket"}

\* a file report asked of bitbucket
C16_Witness ==
  \E i \in Invs :
    /\ Sent(i)
    /\ inv[i].given.service = Some("bitbucket")
    /\ SubSeq(Request(i).path, 1, 4) = <<"/", "bitbucket", "/", "acme">>
    /\ inv[i].tool = "codecov_get_file_coverage"

(***************************************************************************)
(* C17: one request per invocation                                         *)
(***************************************************************************)
Started(i) == inv[i].pc # "idle"

\* the path given to codecov_get_file_coverage cannot be encoded
Unencodable(i) ==
  inv[i].tool = "codecov_get_file_coverage" /\ UriMalformed(Get(inv[i].given.path))

\* a failed request ends the invocation: one request, one error result
FailureEnds(i) ==
  Failed(i) =>
    /\ Len(inv[i].requests) = 1
    /\ Len(inv[i].results) = 1
    /\ Result(i).isError

\* C17 as stated: an invocation sends at most one request, exactly one
\* when it has the client, whatever the outcome, and a failed request ends
\* it with an error result.
C17_OneRequest ==
  \A i \in Invs : Started(i) =>
    /\ Len(inv[i].requests) <= 1
    /\ IsSome(inv[i].client) => Len(inv[i].requests) = 1
    /\ FailureEnds(i)

\* C17 amended: an invocation sends at most one request: none without the
\* client, none when codecov_get_file_coverage is given a path that
\* encodeURIComponent rejects, and exactly one otherwise, whatever the
\* outcome; a failed request ends it with an error result.
C17_NoRetry ==
  \A i \in Invs : Started(i) =>
    /\ Len(inv[i].requests) <= 1
    /\ Len(inv[i].requests) = 1 <=> (IsSome(inv[i].client) /\ ~Unencodable(i))
    /\ FailureEnds(i)

\* a request refused for the rate limit: it was the only one and the
\* invocation has returned the error
C17_Witness ==
  \E i \in Invs :
    /\ Failed(i)
    /\ FailStatus(i) = Some(429)
    /\ Len(inv[i].requests) = 1
    /\ Result(i).isError

(***************************************************************************)
(* C18: the rendering of the tree                                          *)
(***************************************************************************)
\* the nodes of a forest in pre-order, each with its nesting level and
\* whether it has at least one child
RECURSIVE PreOrder(_, _)
PreOrder(nodes, level) ==
  IF Len(nodes) = 0 THEN <<>>
  ELSE LET kids == IF IsSome(nodes[1].children) THEN Get(nodes[1].children) ELSE <<>>
       IN  <<[name |-> nodes[1].name, level |-> level, parent |-> Len(kids) > 0]>>
             \o PreOrder(kids, level + 1)
             \o PreOrder(Tail(nodes), level)

\* the positions of the line breaks of a text, and the j-th of them (0 for
\* j = 0, one past the end for the one after the last)
Breaks(str) == {k \in 1..Len(str) : str[k] = "\n"}

BreakAt(str, j) ==
  IF j = 0 THEN 0
  ELSE IF j > Cardinality(Breaks(str)) THEN Len(str) + 1
  ELSE CHOOSE k \in Breaks(str) : Cardinality({m \in Breaks(str) : m <= k}) = j

\* a text cut at its line breaks
SplitLines(str) ==
  [j \in 1..(Cardinality(Breaks(str)) + 1) |->
     SubSeq(str, BreakAt(str, j - 1) + 1, BreakAt(str, j) - 1)]

\* the number of spaces a line begins with
LeadingSpaces(line) ==
  CHOOSE n \in 0..Len(line) :
    /\ \A k \in 1..n : line[k] = " "
    /\ n = Len(line) \/ line[n + 1] # " "

TreeRendered(i) ==
  /\ Done(i)
  /\ inv[i].tool = "codecov_get_coverage_tree"
  /\ inv[i].outcome.kind = "ok"
  /\ IsSome(inv[i].outcome.body)

\* C18: the text is the heading, an empty line, then one line for each
\* node of the tree and no other, in pre-order; the line of a node at
\* level d begins with exactly 2*d spaces, shows the directory mark when
\* and only when the node has at least one child, and then the node's
\* name.
C18_TreeRendering ==
  \A i \in Invs : TreeRendered(i) =>
    LET nodes == PreOrder(Response(i), 0)
        pieces == SplitLines(ResultText(i).str)
    IN  /\ ~Result(i).isError
        /\ Len(pieces) = Len(nodes) + 3
        /\ pieces[1] = <<"Coverage Tree:">>
        /\ pieces[2] = <<>>
        /\ pieces[Len(pieces)] = <<>>
        /\ \A k \in 1..Len(nodes) :
             LET line == pieces[k + 2]
                 sp == LeadingSpaces(line)
             IN  /\ sp = 2 * nodes[k].level
                 /\ Len(line) >= sp + 3
                 /\ line[sp + 1] = (IF nodes[k].parent THEN "[dir]" ELSE "[file]")
                 /\ line[sp + 2] = " "
                 /\ line[sp + 3] = nodes[k].name

\* a tree three levels deep, with a childless node that carries an empty
\* list of children, has been rendered
C18_Witness ==
  \E i \in Invs :
    /\ TreeRendered(i)
    /\ \E k, l \in 1..Len(PreOrder(Response(i), 0)) :
         /\ PreOrder(Response(i), 0)[k].level = 2
         /\ PreOrder(Response(i), 0)[l].level = 1
         /\ ~PreOrder(Response(i), 0)[l].parent
    /\ Len(Response(i)) = 1
    /\ Response(i)[1].children # None
    /\ \E c \in 1..Len(Get(Response(i)[1].children)) :
         Get(Response(i)[1].children)[c].children = Some(<<>>)

(***************************************************************************)
(* C19: concurrent invocations do not affect one another                   *)
(***************************************************************************)
\* the handler run alone in a fresh process with the same credential: up
\* to its await, and from there with the given outcome
AloneStart(i) == HandlerStart(inv[i].tool, ParseArgs(inv[i].tool, inv[i].given), None, token).inv

AloneResults(i) ==
  IF AloneStart(i).pc = "done" THEN AloneStart(i).results
  ELSE HandlerResume(inv[i].tool, inv[i].outcome).results

\* what invocation i has done so far is what it does alone
AsAlone(i) ==
  /\ inv[i].requests = AloneStart(i).requests
  /\ Done(i) => inv[i].results = AloneResults(i)
  /\ inv[i].pc = "awaiting" => AloneStart(i).pc = "awaiting" /\ inv[i].results = <<>>

\* a step of one invocation leaves the others as they are
OthersUntouched ==
  \A i \in Invs : inv'[i] # inv[i] => \A j \in Invs \ {i} : inv'[j] = inv[j]

\* whatever the others are doing, a call can start and a waiting
\* invocation can take the answer to its request
NeverBlocked ==
  \A i \in Invs :
    /\ inv[i].pc = "idle" => ENABLED ConcInvoke(i)
    /\ inv[i].pc = "awaiting" => ENABLED ConcSettle(i)

\* C19: however the invocations interleave, each sends the request and
\* returns the result it would alone with the same arguments and the same
\* answer; a step of one changes nothing of another; and none has to wait
\* for another.
C19_Independence ==
  /\ [](\A i \in Invs : Started(i) => AsAlone(i))
  /\ [][OthersUntouched]_vars
  /\ []NeverBlocked

\* invocation 2 has its result while invocation 1, sharing the client, is
\* still waiting for its answer
C19_Witness ==
  /\ inv[1].pc = "awaiting"
  /\ Done(2)
  /\ inv[2].outcome.kind = "ok"
  /\ ~Result(2).isError
  /\ inv[1].client = Some(1) /\ inv[2].client = Some(1)
  /\ inv[1].tool = inv[2].tool

(***************************************************************************)
(* C20: what a client error carries                                        *)
(***************************************************************************)
\* a method of the client threw in invocation i: the client was obtained
\* and the error came before the request or as the failure of the request
ClientThrew(i) ==
  /\ Done(i)
  /\ IsSome(inv[i].client)
  /\ inv[i].outcome.kind # "ok"
  /\ Len(inv[i].caught) = 1

\* C20: whatever a client method throws is a CodecovApiError with a
\* message that is not empty; when the request failed with an HTTP
\* response the error has that response's status code and, when the
\* response body had a detail text, that text.
C20_ErrorCarries ==
  \A i \in Invs : ClientThrew(i) =>
    LET e == inv[i].caught[1]
    IN  /\ e.name = "CodecovApiError"
        /\ e.message # ""
        /\ (Failed(i) /\ IsSome(inv[i].outcome.error.response)) =>
             /\ e.statusCode = Some(Get(inv[i].outcome.error.response).status)
             /\ TruthyStr(FailData(i).detail) => e.detail = FailData(i).detail
        /\ ~(Failed(i) /\ IsSome(inv[i].outcome.error.response)) => e.statusCode = None

\* a 500 whose body had a detail: status and detail are on the error
C20_Witness ==
  \E i \in Invs :
    /\ ClientThrew(i)
    /\ Failed(i)
    /\ inv[i].caught[1].statusCode = Some(500)
    /\ inv[i].caught[1].detail = Some("Not found.")
    /\ inv[i].caught[1].message = "Not found."


(***************************************************************************)
(* C21: responses with nullable fields missing                             *)
(***************************************************************************)
\* invocation i has handled a 2xx body of the declared shape
Answered(i, tool) ==
  /\ Done(i)
  /\ inv[i].tool = tool
  /\ inv[i].outcome.kind = "ok"
  /\ IsSome(inv[i].outcome.body)

\* the handler returned a success result and nothing was thrown
NeverCrashes(i) ==
  /\ Len(inv[i].results) = 1
  /\ ~Result(i).isError
  /\ inv[i].caught = <<>>
  /\ inv[i].escaped = <<>>

\* what the summary shows where the response has null
ShowsPlaceholders(i) ==
  /\ Answered(i, "codecov_get_repository") =>
       (Response(i).totals = None => Summary(i).coverage = <<"No coverage data available">>)
  /\ Answered(i, "codecov_list_repositories") =>
       \A k \in 1..Len(Response(i).results) :
         Response(i).results[k].totals = None => Summary(i).repositories[k].coverage = NA
  /\ Answered(i, "codecov_list_commits") =>
       \A k \in 1..Len(Response(i).results) :
         /\ Response(i).results[k].totals = None => Summary(i).commits[k].coverage = NA
         /\ Response(i).results[k].author = None => Summary(i).commits[k].author = "Unknown"
         /\ Response(i).results[k].message = None => Summary(i).commits[k].message = None
  /\ Answered(i, "codecov_list_pulls") =>
       \A k \in 1..Len(Response(i).results) :
         /\ Response(i).results[k].author = None => Summary(i).pull_requests[k].author = "Unknown"
         /\ Response(i).results[k].base = None => Summary(i).pull_requests[k].base = None
         /\ Response(i).results[k].head = None => Summary(i).pull_requests[k].head = None
  /\ Answered(i, "codecov_compare_coverage") =>
       /\ Response(i).totals.base = None =>
            /\ Summary(i).coverage_totals.base = NA
            /\ Summary(i).coverage_totals.change = NA
       /\ Response(i).base_commit = None => Summary(i).comparison.base_commit = NA
       /\ Response(i).totals.patch = None =>
            Summary(i).patch_coverage = <<"No patch coverage data">>
       /\ \A k \in 1..Len(Summary(i).changed_files) :
            LET entry == Summary(i).changed_files[k]
                f == FileNamed(i, entry.name)
            IN  /\ f.totals.base = None => entry.base_coverage = NA /\ entry.change = NA
                /\ f.totals.head = None => entry.head_coverage = NA /\ entry.change = NA
                /\ f.totals.patch = None => entry.patch = None
                /\ f.stats = None => entry.lines_added # 0 /\ entry.lines_removed # 0

\* C21: a 2xx response in which only nullable fields are null (the base
\* totals and base commit of a comparison, the base or head totals and the
\* line stats of a compared file, the totals of a repository or commit, the
\* author or message of a commit, the base or head of a pull request)
\* always gives a success result, nothing is thrown, and the summary shows
\* a placeholder where the value is missing: "N/A", "Unknown", a text
\* saying that there is no data, or null for a missing text or reference,
\* and never a number.
C21_GracefulDegradation ==
  \A i \in Invs :
    Done(i) /\ inv[i].outcome.kind = "ok" /\ IsSome(inv[i].outcome.body)
      => NeverCrashes(i) /\ ShowsPlaceholders(i)


(***************************************************************************)
(* C22: the three classes of lines                                         *)
(***************************************************************************)
Classified == IsSome(glOutput)
Among(lines, n) == \E j \in 1..Len(lines) : lines[j] = n

\* line numbers in strictly increasing order: the entries of the report,
\* which are numbered by position, in their input order and each once
InInputOrder(lines) == \A j \in 1..Len(lines) - 1 : lines[j] < lines[j + 1]

\* C22: an entry of the report is among the missed lines exactly when its
\* count is 0, whatever its partial flag; among the partially hit lines
\* exactly when its count is positive and it is flagged partial; among the
\* covered lines exactly when its count is positive and it is not flagged
\* partial; an entry whose count is null is in none of them and no entry
\* is in two; every class lists its entries in input order; and
\* uncovered_line_count is the number of entries whose count is 0.
C22_LineClassification ==
  Classified =>
    LET out == Get(glOutput)
        hit(k) == IsSome(glInput[k].coverage) /\ Get(glInput[k].coverage) > 0
        flagged(k) == glInput[k].is_partial_hit = Some(TRUE)
    IN  /\ \A k \in 1..Len(glInput) :
              /\ Among(out.missedLines, k) <=> glInput[k].coverage = Some(0)
              /\ Among(out.partialLines, k) <=> hit(k) /\ flagged(k)
              /\ Among(out.coveredLines, k) <=> hit(k) /\ ~flagged(k)
              /\ glInput[k].coverage = None =>
                    ~Among(out.missedLines, k) /\ ~Among(out.partialLines, k)
                      /\ ~Among(out.coveredLines, k)
              /\ ~(Among(out.missedLines, k) /\ Among(out.partialLines, k))
              /\ ~(Among(out.missedLines, k) /\ Among(out.coveredLines, k))
              /\ ~(Among(out.partialLines, k) /\ Among(out.coveredLines, k))
        /\ \A lines \in {out.missedLines, out.partialLines, out.coveredLines} :
              /\ InInputOrder(lines)
              /\ \A j \in 1..Len(lines) : lines[j] \in 1..Len(glInput)
        /\ out.summary.uncovered_line_count
              = Cardinality({k \in 1..Len(glInput) : glInput[k].coverage = Some(0)})

\* a report with a missed line flagged partial, a line that is not
\* relevant and a partially hit line has been classified
C22_Witness ==
  /\ Classified
  /\ Len(glInput) = 3
  /\ glInput[1] = Line(1, Some(0), Some(TRUE))
  /\ glInput[2] = Line(2, None, Some(TRUE))
  /\ glInput[3] = Line(3, Some(3), Some(TRUE))
  /\ Get(glOutput).missedLines = <<1>>
  /\ Get(glOutput).partialLines = <<3>>
  /\ Get(glOutput).summary.uncovered_line_count = 1


(***************************************************************************)
(* C23: the file path in the request URL                                   *)
(***************************************************************************)
HexVal(c) ==
  IF \E n \in 1..16 : HexDigits[n] = c THEN Some((CHOOSE n \in 1..16 : HexDigits[n] = c) - 1)
  ELSE IF c \in {"a", "b", "c", "d", "e", "f"}
       THEN Some(CASE c = "a" -> 10 [] c = "b" -> 11 [] c = "c" -> 12
                   [] c = "d" -> 13 [] c = "e" -> 14 [] c = "f" -> 15)
       ELSE None

\* the byte written "%XX" at position k
ByteAt(str, k) ==
  IF Len(str) >= k + 2 /\ str[k] = "%" /\ IsSome(HexVal(str[k + 1])) /\ IsSome(HexVal(str[k + 2]))
  THEN Some(16 * Get(HexVal(str[k + 1])) + Get(HexVal(str[k + 2])))
  ELSE None

CharOf(bytes) ==
  IF \E c \in DOMAIN Utf8 : Utf8[c] = bytes
  THEN Some(CHOOSE c \in DOMAIN Utf8 : Utf8[c] = bytes)
  ELSE None

\* decodeURIComponent: a character that is not "%" stands for itself, "%XX"
\* sequences are the bytes of a character in UTF-8; <<>> when it throws
RECURSIVE decodeURIComponent(_)
decodeURIComponent(str) ==
  IF Len(str) = 0 THEN Some(<<>>)
  ELSE IF str[1] # "%"
       THEN LET rest == decodeURIComponent(Tail(str))
            IN  IF IsSome(rest) THEN Some(<<str[1]>> \o Get(rest)) ELSE None
       ELSE LET b1 == ByteAt(str, 1)
                b2 == ByteAt(str, 4)
                two == IsSome(b1) /\ Get(b1) \in 192..223 /\ IsSome(b2) /\ Get(b2) \in 128..191
                char == IF two THEN CharOf(<<Get(b1), Get(b2)>>)
                        ELSE IF IsSome(b1) /\ Get(b1) < 128 THEN CharOf(<<Get(b1)>>)
                        ELSE None
                rest == decodeURIComponent(SubSeq(str, IF two THEN 7 ELSE 4, Len(str)))
            IN  IF IsSome(char) /\ IsSome(rest) THEN Some(<<Get(char)>> \o Get(rest)) ELSE None

FileRequested(i) ==
  /\ inv[i].tool = "codecov_get_file_coverage"
  /\ Sent(i)

\* the part of the request path before the file path
FilePrefix(i) ==
  <<"/", IF IsSome(inv[i].given.service) THEN Get(inv[i].given.service) ELSE DEFAULT_SERVICE,
    "/", inv[i].given.owner, "/", "repos", "/", inv[i].given.repo, "/", "file_report", "/">>

\* what stands between the prefix and the closing "/"
PathSegment(i) == SubSeq(Request(i).path, Len(FilePrefix(i)) + 1, Len(Request(i).path) - 1)

\* C23: the path of the request of codecov_get_file_coverage is
\* /{service}/{owner}/repos/{repo}/file_report/{encoded_path}/ where the
\* encoded path is one segment: it has no "/" and no other character than
\* the unreserved ones and "%XX" escapes, and decodeURIComponent of it is
\* the path the caller gave.
C23_PathEncoding ==
  \A i \in Invs : FileRequested(i) =>
    LET path == Request(i).path
        n == Len(FilePrefix(i))
    IN  /\ Len(path) > n + 1
        /\ SubSeq(path, 1, n) = FilePrefix(i)
        /\ path[Len(path)] = "/"
        /\ \A k \in 1..Len(PathSegment(i)) : PathSegment(i)[k] \in Unreserved \cup {"%"}
        /\ \A k \in 1..Len(PathSegment(i)) :
             PathSegment(i)[k] = "%" => IsSome(ByteAt(PathSegment(i), k))
        /\ decodeURIComponent(PathSegment(i)) = Some(Get(inv[i].given.path))

\* a request was sent for a path with a "/", a "%" and a character outside
\* ASCII
C23_Witness ==
  /\ FileRequested(1)
  /\ Get(inv[1].given.path) = <<"/", "%", EAcute>>
  /\ PathSegment(1) = <<"%", "2", "F", "%", "2", "5", "%", "C", "3", "%", "A", "9">>


(***************************************************************************)
(* C24: the session table of the HTTP transport                            *)
(***************************************************************************)
\* a connection registered under sessionId is still open
OpenUnder(sessionId) ==
  \E c \in 1..Len(connections) : connections[c].open /\ connections[c].sessionId = sessionId

KnownSessions == DOMAIN transports \cup {connections[c].sessionId : c \in 1..Len(connections)}

SessionTable ==
  \A sessionId \in KnownSessions :
    /\ sessionId \in DOMAIN transports <=> OpenUnder(sessionId)
    /\ sessionId \in DOMAIN transports =>
         /\ connections[transports[sessionId]].open
         /\ connections[transports[sessionId]].sessionId = sessionId

\* a step that answers a POST answers it from the table
PostAnswered ==
  replies' # replies =>
    LET r == replies'[1]
    IN  /\ ~TruthyStr(r.query) => r.status = Some(400) /\ r.transport = None
        /\ TruthyStr(r.query) /\ Get(r.query) \notin DOMAIN transports =>
             r.status = Some(404) /\ r.transport = None
        /\ TruthyStr(r.query) /\ Get(r.query) \in DOMAIN transports =>
             r.status = None /\ r.transport = Some(transports[Get(r.query)])

\* C24: whatever the order of GET /sse connections and closes, the session
\* table has an entry for a sessionId exactly when a connection registered
\* under it is still open, and the entry is the transport of an open
\* connection, also when two connections use one sessionId and the older
\* closes; POST /messages answers 400 without a sessionId, 404 for a
\* sessionId without an entry, and else hands the message to the transport
\* of the entry.
C24_SessionTable == []SessionTable /\ [][PostAnswered]_vars


(***************************************************************************)
(* C25: range compression of any sequence                                  *)
(***************************************************************************)
\* an integer as `${n}` writes it
IsIntStr(s) == IF Len(s) > 0 /\ s[1] = "-" THEN IsNatStr(Tail(s)) ELSE IsNatStr(s)
StrToInt(s) == IF s[1] = "-" THEN 0 - StrToNat(Tail(s), 0) ELSE StrToNat(s, 0)

\* the positions of a "-" that separates two integers
RangeDashes(p) ==
  {d \in 2..(Len(p) - 1) :
     p[d] = "-" /\ IsIntStr(SubSeq(p, 1, d - 1)) /\ IsIntStr(SubSeq(p, d + 1, Len(p)))}

IntPieceOk(p) == IsIntStr(p) \/ Cardinality(RangeDashes(p)) = 1

IntPieceRange(p) ==
  IF IsIntStr(p) THEN <<StrToInt(p), StrToInt(p)>>
  ELSE LET d == CHOOSE k \in RangeDashes(p) : TRUE
       IN  <<StrToInt(SubSeq(p, 1, d - 1)), StrToInt(SubSeq(p, d + 1, Len(p)))>>

\* C25: for every non-empty sequence of integers, in any order and with
\* repetitions, the output is a ", "-joined list of ranges "n" or "a-b",
\* each with start <= end, and expanding the ranges from left to right
\* gives back the input, element for element.
C25_Lossless ==
  (IsSome(glOutput) /\ Len(glInput) > 0) =>
    LET pieces == SplitRanges(Get(glOutput), <<>>)
        rs == [k \in 1..Len(pieces) |-> IntPieceRange(pieces[k])]
    IN  /\ \A k \in 1..Len(pieces) : IntPieceOk(pieces[k])
        /\ \A k \in 1..Len(rs) : rs[k][1] <= rs[k][2]
        /\ Expand(rs) = glInput

\* a sequence with a repetition, a step down and a range from a negative
\* number to zero has been compressed
C25_Witness ==
  /\ glInput = <<3, 3, -1, 0>>
  /\ glOutput = Some(<<"3", ",", " ", "3", ",", " ", "-", "1", "-", "0">>)


(***************************************************************************)
(* C26: a failed construction of the shared client                         *)
(***************************************************************************)
\* this step is the handler of invocation i running up to its await
Invoked(i) == inv[i].pc = "idle" /\ inv'[i].pc # "idle"

\* the error of getCodecovClient
CredentialError(i) ==
  /\ inv[i].pc = "done"
  /\ inv[i].caught = <<PlainError("Error", MsgTokenEnv)>>

\* a call without a credential and without a client stores nothing and
\* builds nothing
FailedBuild ==
  \A i \in Invs :
    Invoked(i) /\ clientInstance = None /\ ~TruthyStr(token) =>
      /\ clientInstance' = None
      /\ constructed' = constructed
      /\ inv'[i].pc = "done"
      /\ inv'[i].client = None
      /\ inv'[i].requests = <<>>
      /\ inv'[i].caught = <<PlainError("Error", MsgTokenEnv)>>
      /\ inv'[i].results[1].isError

\* a call with a credential gets a client, built now if none was stored
LaterBuild ==
  \A i \in Invs :
    Invoked(i) /\ TruthyStr(token) =>
      /\ IsSome(clientInstance')
      /\ clientInstance = None =>
           /\ constructed' = constructed + 1
           /\ Get(clientInstance').apiToken = Get(token)
      /\ inv'[i].client = Some(constructed')
      /\ inv'[i].caught # <<PlainError("Error", MsgTokenEnv)>>

\* the slot is empty or holds a client that was built with a credential
SoundInstance == IsSome(clientInstance) => Get(clientInstance).apiToken # ""

\* C26: a call of getCodecovClient without the credential throws and leaves
\* clientInstance empty; a call made once the credential is there builds
\* the client and succeeds, whatever failed before; and the slot never
\* holds a client built without a credential.
C26_FailedBuildLeavesSlot == []SoundInstance /\ [][FailedBuild /\ LaterBuild]_vars

\* invocation 1 failed for want of the credential; the credential was then
\* set and invocation 2 holds the first client ever built
C26_Witness ==
  /\ CredentialError(1)
  /\ inv[2].pc = "awaiting"
  /\ inv[2].client = Some(1)
  /\ constructed = 1
  /\ IsSome(clientInstance)

====
